---- MODULE Spec2Model ----
(***************************************************************************)
(* ResumeParser: the per-field fallback chain of extraction strategies.    *)
(*                                                                         *)
(* Strings are sequences of one-character strings (<<"a","@","b">>), so    *)
(* that trimming and pattern matching are computed, not assumed.  Python   *)
(* values are tagged records: None, a string, a list of items, or another  *)
(* object.                                                                 *)
(***************************************************************************)
EXTENDS Integers, Sequences, FiniteSets, TLC

\* ------------------------------------------------------------------ bounds
\* longest fallback chain given to the coordinator for one field
MaxChain == 3
\* longest chain of a coordinator on which two runs are compared
MaxPairChain == 2
\* largest positive top_k of the specs strategies are called with
MaxTopK == 2

\* ------------------------------------------------------------- vocabulary
NAME == "name"
EMAIL == "email"
SKILLS == "skills"
FieldType == {NAME, EMAIL, SKILLS}

\* ------------------------------------------------------------ Python values
None == [t |-> "none", s |-> <<>>, l |-> <<>>]
Str(x) == [t |-> "str", s |-> x, l |-> <<>>]
List(x) == [t |-> "list", s |-> <<>>, l |-> x]
\* any other object an extractor may hand back (0, False, a dict, ...)
OtherObj == [t |-> "other", s |-> <<>>, l |-> <<>>]
\* an item of a list: a string or a None placeholder
Item(x) == [t |-> "str", s |-> x]
NoneItem == [t |-> "none", s |-> <<>>]

\* outcome of a call: it raises exc, or it returns v
Raise(e) == [k |-> "raise", exc |-> e, v |-> None, cause |-> ""]
\* raise e(..., original_exception=c) from c
RaiseFrom(e, c) == [k |-> "raise", exc |-> e, v |-> None, cause |-> c]
Return(x) == [k |-> "return", exc |-> "", v |-> x, cause |-> ""]
NoOutcome == [k |-> "none", exc |-> "", v |-> None, cause |-> ""]

\* exception classes that derive from Exception
ExceptionClasses ==
    {"Exception", "ValueError", "TypeError", "IndentationError",
     "FieldExtractionError", "NoMatchFoundError", "StrategyExtractionError",
     "ExternalServiceError", "InvalidStrategyConfigError",
     "FileParsingError", "UnsupportedFileFormatError", "FileNotFoundError"}

\* faulty variant: "except FieldExtractionError"
Caught_narrow(exc) == exc = "FieldExtractionError"

\* "except Exception"
Caught(exc) == exc \in ExceptionClasses

\* ------------------------------------------------------------------ texts
Whitespace == {" ", "\n", "\t"}

RECURSIVE lstrip(_)
lstrip(t) ==
    IF t # <<>> /\ Head(t) \in Whitespace THEN lstrip(Tail(t)) ELSE t

RECURSIVE rstrip(_)
rstrip(t) ==
    IF t # <<>> /\ t[Len(t)] \in Whitespace
    THEN rstrip(SubSeq(t, 1, Len(t) - 1))
    ELSE t

\* str.strip()
strip(t) == rstrip(lstrip(t))

T_empty == <<>>
T_blank == <<" ", "\n", " ">>
T_word == <<"R", "e", "s">>
T_padded == <<" ", "R", "e", "s", "\n">>
\* "C: j@e.com"
T_contact == <<"C", ":", " ", "j", "@", "e", ".", "c", "o", "m">>
\* " a@b.c x@y.io k@l.mn\n" : the first address-like token has a one-letter
\* TLD, two well-formed addresses follow, whitespace at both ends
T_two == <<" ", "a", "@", "b", ".", "c", " ", "x", "@", "y", ".", "i", "o",
           " ", "k", "@", "l", ".", "m", "n", "\n">>
\* texts whose trimmed length is at and just below the minimum of a field
\* extractor: " J\t" (1), "Py" (2), "a@b." (4), " a@b.c\n" (5)
T_one == <<" ", "J", "\t">>
T_pair == <<"P", "y">>
T_four == <<"a", "@", "b", ".">>
T_five == <<" ", "a", "@", "b", ".", "c", "\n">>
Texts ==
    {T_empty, T_blank, T_word, T_padded, T_contact, T_two,
     T_one, T_pair, T_four, T_five}
\* the texts handed to the coordinator
ResumeTexts == {T_empty, T_blank, T_contact, T_two}

\* values the stubbed extractors of the coordinator's tests hand back
V_john == Str(<<"J", "D">>)
V_python == List(<<Item(<<"P", "y">>), Item(<<"S", "Q", "L">>)>>)

\* everything one extractor call can do, as seen by the coordinator
ExtractorOutcomes ==
    {Raise("Exception"), Raise("FieldExtractionError"),
     Return(None), Return(Str(<<>>)), Return(List(<<>>)),
     Return(V_john), Return(V_python)}

\* ------------------------------------------------- coordinator: construction
\* the extractors argument: None, or a dict from field types to chains; an
\* extractor is identified by the chain it sits in and its position there
NoneMapping == [isNone |-> TRUE, m |-> <<>>]
Dict(d) == [isNone |-> FALSE, m |-> d]

Extractor(f, i, kd) == [field |-> f, pos |-> i, kind |-> kd]

\* a chain of n extractors for field f; first says what the first one is: a
\* stub, the extractor the factory builds for (EMAIL, REGEX), or a
\* SkillsExtractor around a scripted strategy
ChainOf(f, n, first) ==
    [i \in 1..n |-> Extractor(f, i - 1, IF i = 1 THEN first ELSE "stub")]

Chains(f) ==
    {ChainOf(f, n, "stub") : n \in 0..MaxChain}
    \cup (IF f = EMAIL
          THEN {ChainOf(f, n, "factory_regex") : n \in 1..MaxChain}
          ELSE {})
    \cup (IF f = SKILLS
          THEN {ChainOf(f, n, "skills_extractor") : n \in 1..MaxChain}
          ELSE {})

Mappings ==
    {NoneMapping}
    \cup UNION {{Dict(d) : d \in {g \in [ks -> UNION {Chains(f) : f \in ks}] :
                                     \A f \in ks : g[f] \in Chains(f)}} :
                ks \in SUBSET FieldType}

\* faulty variant: SKILLS is not required
required_fields_two == {NAME, EMAIL}

required_fields == {NAME, EMAIL, SKILLS}

\* "not extractors"
IsFalsyMapping(a) == a.isNone \/ DOMAIN a.m = {}

missing_fields(a) == required_fields \ DOMAIN a.m

NoError == [type |-> "", msg |-> "", missing |-> {}, cause |-> ""]
Error(ty, ms, mi, ca) == [type |-> ty, msg |-> ms, missing |-> mi, cause |-> ca]

\* ResumeExtractor.__init__: the error it raises, NoError when it succeeds
init_error(a) ==
    IF IsFalsyMapping(a)
    THEN Error("ValueError", "extractors dictionary cannot be None or empty", {}, "")
    ELSE IF ~(required_fields \subseteq DOMAIN a.m)
    THEN Error("ValueError", "Missing required field types", missing_fields(a), "")
    ELSE NoError

\* ------------------------------------------------------ pattern matching
Lower == {"a", "b", "c", "d", "e", "f", "g", "h", "i", "j", "k", "l", "m",
          "n", "o", "p", "q", "r", "s", "t", "u", "v", "w", "x", "y", "z"}
Upper == {"A", "B", "C", "D", "E", "F", "G", "H", "I", "J", "K", "L", "M",
          "N", "O", "P", "Q", "R", "S", "T", "U", "V", "W", "X", "Y", "Z"}
Digit == {"0", "1", "2", "3", "4", "5", "6", "7", "8", "9"}
Alpha == Lower \cup Upper
\* [a-zA-Z0-9._%+-] and [a-zA-Z0-9.-]
LocalChars == Alpha \cup Digit \cup {".", "_", "%", "+", "-"}
DomainChars == Alpha \cup Digit \cup {".", "-"}

\* the one pattern the factory configures, for EMAIL:
\*   [a-zA-Z0-9._%+-]+@[a-zA-Z0-9.-]+\.[a-zA-Z]{2,}
EMAIL_PATTERN == "[a-zA-Z0-9._%+-]+@[a-zA-Z0-9.-]+\\.[a-zA-Z]{2,}"

\* first index >= i of t whose character is outside cls (Len(t)+1 if none)
RECURSIVE RunEnd(_, _, _)
RunEnd(t, i, cls) ==
    IF i <= Len(t) /\ t[i] \in cls THEN RunEnd(t, i + 1, cls) ELSE i

\* index of the last character of the match of EMAIL_PATTERN that starts at
\* s, 0 when there is none: the greedy local part must run up to an "@", the
\* greedy domain part backtracks to the last "." followed by two letters, and
\* the greedy TLD takes every letter that follows
EmailMatchEnd(t, s) ==
    LET a == RunEnd(t, s, LocalChars)
        r == RunEnd(t, a + 1, DomainChars)
        dots == {p \in (a + 2)..(r - 1) :
                    /\ t[p] = "."
                    /\ p + 2 <= Len(t)
                    /\ t[p + 1] \in Alpha
                    /\ t[p + 2] \in Alpha}
        lastDot == CHOOSE p \in dots : \A q \in dots : q <= p
    IN  IF a > s /\ a <= Len(t) /\ t[a] = "@" /\ dots # {}
        THEN RunEnd(t, lastDot + 1, Alpha) - 1
        ELSE 0

\* re.findall for EMAIL_PATTERN, scanning from index i: leftmost matches,
\* none overlapping
RECURSIVE EmailFindallFrom(_, _)
EmailFindallFrom(t, i) ==
    IF i > Len(t) THEN <<>>
    ELSE LET e == EmailMatchEnd(t, i)
         IN  IF e = 0 THEN EmailFindallFrom(t, i + 1)
             ELSE <<Item(SubSeq(t, i, e))>> \o EmailFindallFrom(t, e + 1)

\* further patterns a strategy can be configured with:  \d+ ,  [a-z]+  (the
\* strategy compiles with IGNORECASE, so any letter) and  (\d*)-(\d*) , a
\* pattern of two capture groups either of which can match nothing
DIGITS_PATTERN == "\\d+"
LETTERS_PATTERN == "[a-z]+"
RANGE_PATTERN == "(\\d*)-(\\d*)"

\* a match of a pattern with several groups: the tuple of its groups
Tuple(gs) == [t |-> "tuple", g |-> gs]

\* re.findall for a pattern cls+ : the maximal runs of characters of cls
RECURSIVE RunsFrom(_, _, _)
RunsFrom(t, i, cls) ==
    IF i > Len(t) THEN <<>>
    ELSE IF t[i] \in cls
    THEN <<Item(SubSeq(t, i, RunEnd(t, i, cls) - 1))>>
         \o RunsFrom(t, RunEnd(t, i, cls), cls)
    ELSE RunsFrom(t, i + 1, cls)

\* re.findall for RANGE_PATTERN: a match starts at i when the digits from i on
\* run up to a "-", and takes the digits after it
RECURSIVE RangeFindallFrom(_, _)
RangeFindallFrom(t, i) ==
    IF i > Len(t) THEN <<>>
    ELSE LET r == RunEnd(t, i, Digit)
             e == RunEnd(t, r + 1, Digit)
         IN  IF r <= Len(t) /\ t[r] = "-"
             THEN <<Tuple(<<SubSeq(t, i, r - 1), SubSeq(t, r + 1, e - 1)>>)>>
                  \o RangeFindallFrom(t, e)
             ELSE RangeFindallFrom(t, i + 1)

\* pattern.findall(text)
findall(p, t) ==
    CASE p = EMAIL_PATTERN -> EmailFindallFrom(t, 1)
      [] p = DIGITS_PATTERN -> RunsFrom(t, 1, Digit)
      [] p = LETTERS_PATTERN -> RunsFrom(t, 1, Alpha)
      [] p = RANGE_PATTERN -> RangeFindallFrom(t, 1)
      [] OTHER -> <<>>

\* ------------------------------------------------------------- field specs
\* top_k: None (single-valued), 0 (no limit) or N > 0
TopKNone == [isNone |-> TRUE, n |-> 0]
TopK(n) == [isNone |-> FALSE, n |-> n]

FieldSpec(f, pats, label, k) ==
    [field_type |-> f, regex_patterns |-> pats, entity_label |-> label, top_k |-> k]

\* faulty variant: SKILLS is single-valued
_create_field_spec_single(f) ==
    CASE f = NAME -> FieldSpec(NAME, <<>>, "person", TopKNone)
      [] f = EMAIL -> FieldSpec(EMAIL, <<EMAIL_PATTERN>>, "email", TopKNone)
      [] f = SKILLS -> FieldSpec(SKILLS, <<>>, "skill", TopKNone)

_create_field_spec(f) ==
    CASE f = NAME -> FieldSpec(NAME, <<>>, "person", TopKNone)
      [] f = EMAIL -> FieldSpec(EMAIL, <<EMAIL_PATTERN>>, "email", TopKNone)
      [] f = SKILLS -> FieldSpec(SKILLS, <<>>, "skill", TopK(0))

\* faulty variant: "not text" only
IsBlank_emptyOnly(t) == t = <<>>

\* "not text or not text.strip()"
IsBlank(t) == t = <<>> \/ strip(t) = <<>>

\* faulty variant: matches[:k+1]
Take_one_more(q, k) == SubSeq(q, 1, IF k + 1 < Len(q) THEN k + 1 ELSE Len(q))

\* matches[:k]
Take(q, k) == SubSeq(q, 1, IF k < Len(q) THEN k ELSE Len(q))

\* [m for match in matches for m in match if m]
RECURSIVE flatten(_)
flatten(matches) ==
    IF matches = <<>> THEN <<>>
    ELSE LET kept == SelectSeq(Head(matches).g, LAMBDA m : m # <<>>)
         IN  [k \in 1..Len(kept) |-> Item(kept[k])] \o flatten(Tail(matches))

\* lines 57-58: tuples of groups are flattened, other matches are left alone
flattened(matches) ==
    IF matches # <<>> /\ matches[1].t = "tuple" THEN flatten(matches) ELSE matches

\* faulty variant: a pattern that matches is passed over when a later
\* pattern matches too
RECURSIVE regex_try_last(_, _, _)
regex_try_last(spec, t, i) ==
    IF i > Len(spec.regex_patterns) THEN Raise("NoMatchFoundError")
    ELSE LET matches == flattened(findall(spec.regex_patterns[i], t))
             later == regex_try_last(spec, t, i + 1)
         IN  IF findall(spec.regex_patterns[i], t) # <<>> /\ later.k = "raise"
             THEN IF ~spec.top_k.isNone
                  THEN Return(List(IF spec.top_k.n > 0
                                   THEN Take(matches, spec.top_k.n)
                                   ELSE matches))
                  ELSE Return(List(IF matches # <<>> THEN <<matches[1]>> ELSE <<>>))
             ELSE later

\* the loop of RegexExtractionStrategy.extract over patterns i..
RECURSIVE regex_try(_, _, _)
regex_try(spec, t, i) ==
    IF i > Len(spec.regex_patterns) THEN Raise("NoMatchFoundError")
    ELSE LET matches == flattened(findall(spec.regex_patterns[i], t))
         IN  IF findall(spec.regex_patterns[i], t) # <<>>
             THEN IF ~spec.top_k.isNone
                  THEN Return(List(IF spec.top_k.n > 0
                                   THEN Take(matches, spec.top_k.n)
                                   ELSE matches))
                  ELSE Return(List(IF matches # <<>> THEN <<matches[1]>> ELSE <<>>))
             ELSE regex_try(spec, t, i + 1)

\* the patterns RegexExtractionStrategy.extract calls findall on, in the
\* order of the calls: the loop is left at the first one that matches
RECURSIVE regex_consulted(_, _, _)
regex_consulted(spec, t, i) ==
    IF i > Len(spec.regex_patterns) THEN <<>>
    ELSE IF findall(spec.regex_patterns[i], t) # <<>> THEN <<i>>
    ELSE <<i>> \o regex_consulted(spec, t, i + 1)

RegexExtractionStrategy_extract(spec, t) ==
    IF IsBlank(t) THEN Raise("NoMatchFoundError") ELSE regex_try(spec, t, 1)

\* the patterns one call of extract evaluates
RegexExtractionStrategy_consulted(spec, t) ==
    IF IsBlank(t) THEN <<>> ELSE regex_consulted(spec, t, 1)

\* RegexExtractionStrategy(spec): the error construction raises
RegexExtractionStrategy_init(spec) ==
    IF spec.regex_patterns = <<>>
    THEN Error("InvalidStrategyConfigError", "At least one regex pattern must be provided", {}, "")
    ELSE NoError

\* ------------------------------------------------- entity strategy (ner.py)
\* a NERExtractionStrategy object: its constructor takes (model_name,
\* default_entity_labels) and keeps no spec; labels <<>> stands for None
NERStrategy(labels) == [default_entity_labels |-> labels]

\* the strategy's default labels going before the label of the spec
entity_labels_default_first(self, spec) ==
    IF self.default_entity_labels # <<>> THEN self.default_entity_labels
    ELSE IF spec.entity_label # "" THEN <<spec.entity_label>>
    ELSE <<>>

\* lines 55-60: the labels handed to the model, <<>> when none is resolved
entity_labels(self, spec) ==
    IF spec.entity_label # "" THEN <<spec.entity_label>>
    ELSE self.default_entity_labels

\* NERExtractionStrategy.extract(text, spec), the recognition model doing
\* ext when called: raising, or returning the texts of the entities found
NERExtractionStrategy_extract(self, text, spec, ext) ==
    IF IsBlank(text) THEN Raise("NoMatchFoundError")
    ELSE IF entity_labels(self, spec) = <<>> THEN Raise("InvalidStrategyConfigError")
    ELSE IF ext.k = "raise"
    THEN (IF Caught(ext.exc) THEN RaiseFrom("StrategyExtractionError", ext.exc) ELSE ext)
    ELSE IF ext.v.l = <<>> THEN Raise("NoMatchFoundError")
    ELSE IF ~spec.top_k.isNone
    THEN Return(List(IF spec.top_k.n > 0 THEN Take(ext.v.l, spec.top_k.n) ELSE ext.v.l))
    ELSE Return(List(<<ext.v.l[1]>>))

\* the calls model.predict_entities(text, entity_labels) made by one
\* extract(text, spec): none before line 66 is reached, one otherwise
NERExtractionStrategy_predicts(self, text, spec) ==
    IF IsBlank(text) \/ entity_labels(self, spec) = <<>> THEN <<>>
    ELSE <<[text |-> text, labels |-> entity_labels(self, spec)]>>

\* --------------------------------------------- generative strategy (llm.py)
LowerSeq == <<"a", "b", "c", "d", "e", "f", "g", "h", "i", "j", "k", "l", "m",
             "n", "o", "p", "q", "r", "s", "t", "u", "v", "w", "x", "y", "z">>
UpperSeq == <<"A", "B", "C", "D", "E", "F", "G", "H", "I", "J", "K", "L", "M",
             "N", "O", "P", "Q", "R", "S", "T", "U", "V", "W", "X", "Y", "Z">>

\* letters left in their case
upper_unchanged(t) == t

\* str.upper()
upper(t) ==
    [i \in 1..Len(t) |->
        IF t[i] \in Lower
        THEN UpperSeq[CHOOSE k \in 1..26 : LowerSeq[k] = t[i]]
        ELSE t[i]]

NOT_FOUND == <<"N", "O", "T", "_", "F", "O", "U", "N", "D">>

\* str.index(ch) and str.rindex(ch), for a ch that occurs in t
index(t, ch) == CHOOSE i \in 1..Len(t) : t[i] = ch /\ \A j \in 1..(i - 1) : t[j] # ch
rindex_first(t, ch) == index(t, ch)
rindex(t, ch) == CHOOSE i \in 1..Len(t) : t[i] = ch /\ \A j \in (i + 1)..Len(t) : t[j] # ch
Contains(t, ch) == \E i \in 1..Len(t) : t[i] = ch

\* json.loads on the text between the first "[" and the last "]", for the
\* arrays the responses of the model are made of: items that are strings
\* without escapes, non-negative integers or null, separated by commas, with
\* optional whitespace around them.  Anything else in such a text (a second
\* array after the first, a missing comma or quote, a trailing comma) is a
\* JSONDecodeError.
JStr(x) == [t |-> "str", s |-> x]
JInt(x) == [t |-> "int", s |-> x]
JNull == [t |-> "null", s |-> <<>>]
JFail == [ok |-> FALSE, item |-> JNull, next |-> 0]

\* first index >= i of t that holds a double quote (Len(t)+1 if none)
RECURSIVE QuoteAt(_, _)
QuoteAt(t, i) == IF i <= Len(t) /\ t[i] # "\"" THEN QuoteAt(t, i + 1) ELSE i

\* one JSON value starting at i
json_value(t, i) ==
    IF i > Len(t) THEN JFail
    ELSE IF t[i] = "\""
    THEN LET j == QuoteAt(t, i + 1)
         IN  IF j <= Len(t) /\ \A k \in (i + 1)..(j - 1) : t[k] # "\\"
             THEN [ok |-> TRUE, item |-> JStr(SubSeq(t, i + 1, j - 1)), next |-> j + 1]
             ELSE JFail
    ELSE IF t[i] \in Digit
    THEN LET e == RunEnd(t, i, Digit)
         IN  IF t[i] = "0" /\ e > i + 1 THEN JFail
             ELSE [ok |-> TRUE, item |-> JInt(SubSeq(t, i, e - 1)), next |-> e]
    ELSE IF i + 3 <= Len(t) /\ SubSeq(t, i, i + 3) = <<"n", "u", "l", "l">>
    THEN [ok |-> TRUE, item |-> JNull, next |-> i + 4]
    ELSE JFail

\* the items of an array from index i on, acc being the items before i; the
\* closing bracket has to be the last character of t
RECURSIVE json_items(_, _, _)
json_items(t, i, acc) ==
    LET v == json_value(t, RunEnd(t, i, Whitespace))
        j == RunEnd(t, v.next, Whitespace)
    IN  IF ~v.ok THEN [ok |-> FALSE, items |-> <<>>]
        ELSE IF j < Len(t) /\ t[j] = "," THEN json_items(t, j + 1, Append(acc, v.item))
        ELSE IF j = Len(t) /\ t[j] = "]" THEN [ok |-> TRUE, items |-> Append(acc, v.item)]
        ELSE [ok |-> FALSE, items |-> <<>>]

\* json.loads(json_str): ok is FALSE for a JSONDecodeError
json_loads(t) ==
    IF Len(t) < 2 \/ t[1] # "[" \/ t[Len(t)] # "]" THEN [ok |-> FALSE, items |-> <<>>]
    ELSE IF RunEnd(t, 2, Whitespace) = Len(t) THEN [ok |-> TRUE, items |-> <<>>]
    ELSE json_items(t, 2, <<>>)

\* "if item": the empty string, 0 and null are falsy
Truthy(item) ==
    \/ item.t = "str" /\ item.s # <<>>
    \/ item.t = "int" /\ item.s # <<"0">>

\* [str(item).strip() for item in result if item]
clean(items) ==
    LET kept == SelectSeq(items, Truthy)
    IN  [k \in 1..Len(kept) |-> Item(strip(kept[k].s))]

\* an array with nothing left in it treated like a response that is no array
_parse_response_empty_is_failure(response_text, spec) ==
    LET rt == strip(response_text)
    IN  IF ~spec.top_k.isNone
        THEN IF Contains(rt, "[") /\ Contains(rt, "]")
             THEN LET parsed == json_loads(SubSeq(rt, index(rt, "["), rindex(rt, "]")))
                      result == IF spec.top_k.n > 0
                                THEN Take(clean(parsed.items), spec.top_k.n)
                                ELSE clean(parsed.items)
                  IN  IF ~parsed.ok
                      THEN RaiseFrom("ExternalServiceError", "JSONDecodeError")
                      ELSE IF result = <<>>
                      THEN RaiseFrom("ExternalServiceError", "ValueError")
                      ELSE Return(List(result))
             ELSE RaiseFrom("ExternalServiceError", "ValueError")
        ELSE IF upper(rt) = NOT_FOUND \/ rt = <<>> THEN Raise("NoMatchFoundError")
        ELSE Return(List(<<Item(rt)>>))

\* LLMExtractionStrategy._parse_response(response_text, spec)
_parse_response(response_text, spec) ==
    LET rt == strip(response_text)
    IN  IF ~spec.top_k.isNone
        THEN IF Contains(rt, "[") /\ Contains(rt, "]")
             THEN LET parsed == json_loads(SubSeq(rt, index(rt, "["), rindex(rt, "]")))
                      result == IF spec.top_k.n > 0
                                THEN Take(clean(parsed.items), spec.top_k.n)
                                ELSE clean(parsed.items)
                  IN  IF ~parsed.ok
                      THEN RaiseFrom("ExternalServiceError", "JSONDecodeError")
                      ELSE IF result = <<>> THEN Raise("NoMatchFoundError")
                      ELSE Return(List(result))
             ELSE RaiseFrom("ExternalServiceError", "ValueError")
        ELSE IF upper(rt) = NOT_FOUND \/ rt = <<>> THEN Raise("NoMatchFoundError")
        ELSE Return(List(<<Item(rt)>>))

\* LLMExtractionStrategy._build_prompt(text, spec): the instruction of the
\* field, the format asked for ("Return the result as a valid JSON array of
\* strings", whatever spec.top_k is), the answer asked for when nothing is
\* found ("return an empty array: []") and the text
_build_prompt(text, spec) ==
    [instruction |-> spec.field_type, format |-> "JSON array of strings",
     not_found |-> <<"[", "]">>, text |-> text]

\* the calls model.generate_content(prompt) made by one extract(text): none
\* before line 75 is reached, one otherwise
LLMExtractionStrategy_generates(spec, text) ==
    IF IsBlank(text) THEN <<>> ELSE <<_build_prompt(text, spec)>>

\* LLMExtractionStrategy.extract(text), the client doing resp when called:
\* raising, returning no response (None), or returning a response text
LLMExtractionStrategy_extract(spec, text, resp) ==
    IF IsBlank(text) THEN Raise("NoMatchFoundError")
    ELSE IF resp.k = "raise"
    THEN (IF Caught(resp.exc) THEN RaiseFrom("ExternalServiceError", resp.exc) ELSE resp)
    ELSE IF resp.v = None \/ resp.v = Str(<<>>) THEN Raise("NoMatchFoundError")
    ELSE LET r == _parse_response(resp.v.s, spec)
         IN  IF r.k = "raise" /\ r.exc # "NoMatchFoundError"
             THEN RaiseFrom("ExternalServiceError", r.exc)
             ELSE r

\* ------------------------------------------------------- field extractors
\* "if not names": None, "" and [] are falsy
Falsy(v) == v = None \/ v = Str(<<>>) \/ v = List(<<>>)

MinLength(f) ==
    CASE f = NAME -> 1
      [] f = EMAIL -> 5
      [] f = SKILLS -> 2

\* validate_input: the stripped text, accepted when long enough
validate_input(f, text) ==
    IF Len(strip(text)) < MinLength(f)
    THEN Raise("FieldExtractionError")
    ELSE Return(Str(strip(text)))

\* the texts the wrapped strategy is called with during extract(text)
strategy_calls(f, text) ==
    IF f = EMAIL THEN <<>>
    ELSE IF validate_input(f, text).k = "raise" THEN <<>>
    ELSE <<strip(text)>>

\* faulty variant: None placeholders are passed over
first_of_skip_none(v) ==
    IF v.t = "list"
    THEN LET real == SelectSeq(v.l, LAMBDA it : it.t # "none")
         IN  IF real = <<>> THEN Return(None) ELSE Return(Str(real[1].s))
    ELSE IF v.t = "str" THEN Return(Str(<<v.s[1]>>))
    ELSE Raise("TypeError")

\* names[0]
first_of(v) ==
    IF v.t = "list"
    THEN (IF v.l[1].t = "none" THEN Return(None) ELSE Return(Str(v.l[1].s)))
    ELSE IF v.t = "str" THEN Return(Str(<<v.s[1]>>))
    ELSE Raise("TypeError")

\* NameExtractor.extract(text), the wrapped strategy answering with so
NameExtractor_extract(text, so) ==
    IF validate_input(NAME, text).k = "raise" THEN validate_input(NAME, text)
    ELSE IF so.k = "raise"
    THEN (IF Caught(so.exc) THEN RaiseFrom("FieldExtractionError", so.exc) ELSE so)
    ELSE IF Falsy(so.v)
    THEN RaiseFrom("FieldExtractionError", "FieldExtractionError")
    ELSE IF first_of(so.v).k = "raise"
    THEN RaiseFrom("FieldExtractionError", first_of(so.v).exc)
    ELSE first_of(so.v)

\* faulty variant: a skill that occurs twice is returned once
SkillsExtractor_extract_unique(text, so) ==
    IF validate_input(SKILLS, text).k = "raise" THEN validate_input(SKILLS, text)
    ELSE IF so.k = "raise"
    THEN (IF Caught(so.exc) THEN RaiseFrom("FieldExtractionError", so.exc) ELSE so)
    ELSE IF Falsy(so.v)
    THEN RaiseFrom("FieldExtractionError", "FieldExtractionError")
    ELSE IF so.v.t # "list" THEN Return(so.v)
    ELSE LET l == so.v.l
             keep == {i \in 1..Len(l) : \A j \in 1..(i - 1) : l[j] # l[i]}
         IN  Return(List([i \in 1..Cardinality(keep) |->
                 l[CHOOSE k \in keep : Cardinality({m \in keep : m < k}) = i - 1]]))

\* SkillsExtractor.extract(text), the wrapped strategy answering with so
SkillsExtractor_extract(text, so) ==
    IF validate_input(SKILLS, text).k = "raise" THEN validate_input(SKILLS, text)
    ELSE IF so.k = "raise"
    THEN (IF Caught(so.exc) THEN RaiseFrom("FieldExtractionError", so.exc) ELSE so)
    ELSE IF Falsy(so.v)
    THEN RaiseFrom("FieldExtractionError", "FieldExtractionError")
    ELSE Return(so.v)

\* EmailExtractor.extract(text): the body in the source stops in the middle
\* of an unfinished "for strategy in preferred_strategies: if ...:" (lines
\* 32-33) that is followed by dedented code, so the module does not compile
\* and every use of the class ends in IndentationError; the wrapped strategy
\* is never consulted
EmailExtractor_extract(text, so) == Raise("IndentationError")

FieldExtractor_extract(f, text, so) ==
    CASE f = NAME -> NameExtractor_extract(text, so)
      [] f = EMAIL -> EmailExtractor_extract(text, so)
      [] f = SKILLS -> SkillsExtractor_extract(text, so)

\* ---------------------------------------------------------------- factory
REGEX == "regex"
NER == "ner"
LLM == "llm"
StrategyType == {REGEX, NER, LLM}

\* faulty variant: every strategy is supported for every field
SUPPORTED_STRATEGIES_all(f) == {REGEX, NER, LLM}

SUPPORTED_STRATEGIES(f) ==
    CASE f = NAME -> {NER, LLM}
      [] f = EMAIL -> {REGEX, NER, LLM}
      [] f = SKILLS -> {NER, LLM}

\* what surrounds the factory: whether GLiNER.from_pretrained loads a model,
\* whether GEMINI_API_KEY is set, whether the Gemini client can be made
Env(g, key, c) == [gliner |-> g, api_key |-> key, genai |-> c]
Envs == {Env(g, key, c) : g \in {"ok", "fails"}, key \in BOOLEAN, c \in {"ok", "fails"}}

NoSpec == FieldSpec("", <<>>, "", TopKNone)

\* a strategy object: its class, the spec it keeps in self.spec (has_spec
\* FALSE: it keeps none) and, for the entity strategy, its default labels
Strategy(kd, has, spec, labels) ==
    [kind |-> kd, has_spec |-> has, spec |-> spec, default_entity_labels |-> labels]
NoStrategy == Strategy("", FALSE, NoSpec, <<>>)

StrategyClass(st) ==
    CASE st = REGEX -> "RegexExtractionStrategy"
      [] st = NER -> "NERExtractionStrategy"
      [] st = LLM -> "LLMExtractionStrategy"

ExtractorClass(f) ==
    CASE f = NAME -> "NameExtractor"
      [] f = EMAIL -> "EmailExtractor"
      [] f = SKILLS -> "SkillsExtractor"

\* NERExtractionStrategy(field_spec): the constructor of ner.py is
\* __init__(self, model_name, default_entity_labels=None), so the spec
\* arrives as model_name, is handed to GLiNER.from_pretrained, and is not
\* kept; the labels stay None
NERExtractionStrategy_init(field_spec, env) ==
    [err |-> IF env.gliner = "fails"
             THEN Error("InvalidStrategyConfigError", "Failed to load GLiNER model", {}, "Exception")
             ELSE NoError,
     loads |-> <<"GLiNER.from_pretrained">>,
     strategy |-> Strategy(NER, FALSE, NoSpec, <<>>)]

\* LLMExtractionStrategy(field_spec)
LLMExtractionStrategy_init(field_spec, env) ==
    [err |-> IF ~env.api_key
             THEN Error("InvalidStrategyConfigError", "GEMINI_API_KEY not found", {}, "")
             ELSE IF env.genai = "fails"
             THEN Error("InvalidStrategyConfigError", "Failed to initialize Gemini model", {}, "Exception")
             ELSE NoError,
     loads |-> IF env.api_key THEN <<"genai.GenerativeModel">> ELSE <<>>,
     strategy |-> Strategy(LLM, TRUE, field_spec, <<>>)]

\* _create_strategy: the constructor it calls (cls "": none), with which
\* arguments, what that loaded, the error raised and the strategy made
_create_strategy(f, st, field_spec, env) ==
    CASE st = REGEX ->
            IF field_spec.regex_patterns = <<>>
            THEN [err |-> Error("InvalidStrategyConfigError", "Regex patterns not configured for field", {}, ""),
                  cls |-> "", args |-> <<>>, loads |-> <<>>, strategy |-> NoStrategy]
            ELSE [err |-> RegexExtractionStrategy_init(field_spec),
                  cls |-> StrategyClass(REGEX), args |-> <<field_spec>>, loads |-> <<>>,
                  strategy |-> Strategy(REGEX, TRUE, field_spec, <<>>)]
      [] st = NER ->
            [err |-> NERExtractionStrategy_init(field_spec, env).err,
             cls |-> StrategyClass(NER), args |-> <<field_spec>>,
             loads |-> NERExtractionStrategy_init(field_spec, env).loads,
             strategy |-> NERExtractionStrategy_init(field_spec, env).strategy]
      [] st = LLM ->
            [err |-> LLMExtractionStrategy_init(field_spec, env).err,
             cls |-> StrategyClass(LLM), args |-> <<field_spec>>,
             loads |-> LLMExtractionStrategy_init(field_spec, env).loads,
             strategy |-> LLMExtractionStrategy_init(field_spec, env).strategy]

\* an extractor object: its class and the strategy it wraps
NoExtractor == [cls |-> "", field |-> NAME, strategy |-> NoStrategy]

\* _create_field_extractor
_create_field_extractor(f, strategy) ==
    [cls |-> ExtractorClass(f), field |-> f, strategy |-> strategy]

\* the outcome of one call of the factory: the error raised (NoError: an
\* extractor was returned), the objects constructed in order (made), the
\* spec, the strategy constructor called and its arguments, the external
\* models and clients loaded, and the extractor returned
NoFactoryResult ==
    [err |-> NoError, made |-> <<>>, spec |-> NoSpec, ctor |-> "", args |-> <<>>,
     loads |-> <<>>, extractor |-> NoExtractor]

\* create_extractor(field_type, strategy_type)
create_extractor(f, st, env) ==
    IF st \notin SUPPORTED_STRATEGIES(f)
    THEN [NoFactoryResult EXCEPT
             !.err = Error("InvalidStrategyConfigError", "Strategy is not supported for field", {}, "")]
    ELSE LET field_spec == _create_field_spec(f)
             made == _create_strategy(f, st, field_spec, env)
             r1 == [NoFactoryResult EXCEPT
                       !.made = <<"FieldSpec">>, !.spec = field_spec,
                       !.ctor = made.cls, !.args = made.args, !.loads = made.loads]
         IN  IF made.err # NoError THEN [r1 EXCEPT !.err = made.err]
             ELSE [r1 EXCEPT
                      !.made = <<"FieldSpec", made.cls, ExtractorClass(f)>>,
                      !.extractor = _create_field_extractor(f, made.strategy)]

\* self.extraction_strategy.extract(processed_text), the call every field
\* extractor makes, on a strategy object; answer is what the model or client
\* behind the strategy does.  NERExtractionStrategy.extract is defined as
\* extract(self, text, spec): called with the text alone it raises TypeError
\* for the missing argument.
strategy_extract(strategy, t, answer) ==
    CASE strategy.kind = REGEX -> RegexExtractionStrategy_extract(strategy.spec, t)
      [] strategy.kind = NER -> Raise("TypeError")
      [] strategy.kind = LLM -> LLMExtractionStrategy_extract(strategy.spec, t, answer)

\* extractor.extract(text) for an extractor the factory returned
extractor_extract(ex, text, answer) ==
    FieldExtractor_extract(ex.field, text,
                           strategy_extract(ex.strategy, strip(text), answer))

\* --------------------------------------------------- coordinator: extract
FieldOrder == <<NAME, EMAIL, SKILLS>>

\* "result is not None and result != [] and result != ''"
IsMeaningful(v) == v # None /\ v # List(<<>>) /\ v # Str(<<>>)

\* faulty variant: None for every field
DefaultValue_none(f) == None

\* the value _extract_field returns once the chain is exhausted
DefaultValue(f) == IF f = SKILLS THEN List(<<>>) ELSE None

\* self.extractors.get(field_type, [])
chain_of(ex, f) == IF f \in DOMAIN ex.m THEN ex.m[f] ELSE <<>>

\* what the strategy inside the SkillsExtractor of a chain is scripted to do
SkillsScripted ==
    {Raise("NoMatchFoundError"),
     Return(List(<<Item(<<"S", "Q", "L">>), Item(<<"P", "y">>), Item(<<"S", "Q", "L">>)>>)),
     Return(List(<<Item(<<"P", "y">>), Item(<<"G", "o">>)>>))}

\* the answers the strategy wrapped by extractor e can give (NoOutcome: e is
\* not an extractor around a scripted strategy)
AnswersOf(e) == IF e.kind = "skills_extractor" THEN SkillsScripted ELSE {NoOutcome}

\* what a call of extractor e on text can do when its strategy answers so: a
\* stub does whatever its test scripted, the other extractors run the code
OutcomesGiven(e, text, so) ==
    IF e.kind = "stub" THEN ExtractorOutcomes
    ELSE IF e.kind = "skills_extractor" THEN {SkillsExtractor_extract(text, so)}
    ELSE {EmailExtractor_extract(text,
              RegexExtractionStrategy_extract(_create_field_spec(EMAIL),
                                              strip(text)))}

\* what a call of extractor e on text can do
OutcomesOf(e, text) == UNION {OutcomesGiven(e, text, so) : so \in AnswersOf(e)}

NoResume == [present |-> FALSE, name |-> None, email |-> None, skills |-> None]
ResumeData(n, e, sk) == [present |-> TRUE, name |-> n, email |-> e, skills |-> sk]

\* the activation of extract(text): pc is where it stands, cur the field of
\* FieldOrder being resolved (4: all resolved), idx the loop index (from 0)
\* inside _extract_field, done[f] which return of _extract_field ended f's
\* chain, result the locals name/email/skills, calls the extractor
\* invocations made so far, last the outcome of the latest one while extract
\* is running
Idle ==
    [pc |-> "idle", text |-> <<>>, cur |-> 1, idx |-> 0,
     done |-> [f \in FieldType |-> "no"],
     result |-> [f \in FieldType |-> None],
     calls |-> <<>>, last |-> NoOutcome, ret |-> NoResume, error |-> NoError]

\* extract, lines 77-80
extract_begin(t) ==
    IF IsBlank(t)
    THEN [Idle EXCEPT !.pc = "raised", !.text = t,
                      !.error = Error("ValueError", "Resume text cannot be empty", {}, "")]
    ELSE [Idle EXCEPT !.pc = "running", !.text = t]

\* faulty variant: every other extractor is left out
next_index_skip(i) == i + 2

\* faulty variant: the loop does not move on to the next extractor
next_index_same(i) == i

\* enumerate(extractors, 1): the index after i
next_index(i) == i + 1

\* faulty variant: an exhausted chain ends the resolution of all fields
exhausted_abort(c, f) ==
    [c EXCEPT !.result[f] = DefaultValue(f), !.done[f] = "default",
              !.cur = 4, !.idx = 0]

\* _extract_field falls out of its loop: lines 136-146
exhausted(c, f) ==
    [c EXCEPT !.result[f] = DefaultValue(f), !.done[f] = "default",
              !.cur = @ + 1, !.idx = 0]

\* the call returned something other than None, "" and []
ReturnedValue(o) == o.k = "return" /\ o.v \notin {None, Str(<<>>), List(<<>>)}

\* the record of one extractor call kept in calls: which extractor, the text
\* it was given, whether it returned a value and which, and what the strategy
\* inside the extractor had answered
\* faulty variant: the extractor is handed the trimmed text
CallRecord_stripped(e, text, o) ==
    [field |-> e.field, pos |-> e.pos, text |-> strip(text),
     got |-> ReturnedValue(o), val |-> IF ReturnedValue(o) THEN o.v ELSE None,
     so |-> NoOutcome]

CallRecord(e, text, o) ==
    [field |-> e.field, pos |-> e.pos, text |-> text,
     got |-> ReturnedValue(o), val |-> IF ReturnedValue(o) THEN o.v ELSE None,
     so |-> NoOutcome]

\* the latest call of c was made by an extractor whose strategy answered so
Answered(c, so) == [c EXCEPT !.calls[Len(c.calls)].so = so]

\* faulty variant: the loop does not stop at a meaningful answer
try_extractor_keep_going(chain, c, o) ==
    LET f == FieldOrder[c.cur]
        c1 == [c EXCEPT !.calls = Append(@, CallRecord(chain[c.idx + 1], c.text, o)),
                        !.last = o,
                        !.result[f] = IF o.k = "return" /\ IsMeaningful(o.v)
                                      THEN o.v ELSE @]
    IN  IF next_index(c.idx) < Len(chain)
        THEN [c1 EXCEPT !.idx = next_index(c.idx)]
        ELSE [c1 EXCEPT !.done[f] = "result", !.cur = @ + 1, !.idx = 0]

\* one iteration of the loop of _extract_field (lines 112-134): extractor
\* number c.idx of the chain is called on the text and does o
try_extractor(chain, c, o) ==
    LET f == FieldOrder[c.cur]
        e == chain[c.idx + 1]
        c1 == [c EXCEPT !.calls = Append(@, CallRecord(e, c.text, o)),
                        !.last = o]
    IN  IF o.k = "return" /\ IsMeaningful(o.v)
        THEN [c1 EXCEPT !.result[f] = o.v, !.done[f] = "result",
                        !.cur = @ + 1, !.idx = 0]
        ELSE IF o.k = "raise" /\ ~Caught(o.exc)
        THEN [c1 EXCEPT !.pc = "raised", !.error = Error(o.exc, "", {}, "")]
        ELSE IF next_index(c.idx) < Len(chain)
        THEN [c1 EXCEPT !.idx = next_index(c.idx)]
        ELSE exhausted(c1, f)

\* extract, lines 87-90
extract_return(c) ==
    [c EXCEPT !.pc = "returned", !.last = NoOutcome,
              !.ret = ResumeData(c.result[NAME], c.result[EMAIL], c.result[SKILLS])]

\* ------------------------------------------------------------------- state
VARIABLES
    built,        \* "new", "ok" (a coordinator exists) or "failed"
    arg,          \* the mapping handed to ResumeExtractor(...)
    extractors,   \* self.extractors
    init_raised,  \* what __init__ raised
    call,         \* the activation of extract
    callB,        \* a second extract on the same coordinator and text
    varied,       \* the field whose extractors answer differently in callB
    fx,           \* the latest call of a field extractor on its own
    fac,          \* the latest use of the factory and of the extractor it built
    sx,           \* the latest call of a strategy on its own
    fw,           \* the latest call of the framework's parse_resume
    rec,          \* a ResumeData record and what was made of it
    events,       \* the starts and ends of the extractor calls of one extract
    facade        \* the construction of a ResumeParserFramework

\* no ResumeParserFramework has been constructed yet
NoFramework ==
    [pc |-> "new", config |-> [isNone |-> TRUE, strategy_preferences |-> <<>>],
     env |-> Env("ok", TRUE, "ok"),
     made |-> [err |-> NoError, extractors |-> NoneMapping, created |-> <<>>]]

coordVars == <<built, arg, extractors, init_raised>>
\* the variables of the facade, of the record and of the order of calls
moreVars == <<fw, rec, events, facade>>
vars == <<built, arg, extractors, init_raised, call, callB, varied, fx, fac, sx,
          fw, rec, events, facade>>

\* a field extractor called on its own: the extractor's field, the text, what
\* its wrapped strategy does when called (so), what extract did (out) and
\* the texts the strategy was called with
NoFieldCall ==
    [pc |-> "idle", field |-> NAME, text |-> <<>>, so |-> NoOutcome,
     out |-> NoOutcome, strategy_calls |-> <<>>]

\* a use of the factory: what was asked for, in which surroundings, what
\* create_extractor did (made), and then a call extract(text) of the
\* extractor, the model or client behind its strategy doing answer
NoFactoryCall ==
    [pc |-> "idle", field |-> NAME, strategy_type |-> REGEX,
     env |-> Env("ok", TRUE, "ok"), made |-> NoFactoryResult,
     text |-> <<>>, answer |-> NoOutcome, out |-> NoOutcome]

\* a strategy called on its own: its class, its spec, the default labels of
\* an entity strategy, the text, what the model or client behind it does
\* (answer); what extract did (out), the patterns it evaluated (consulted)
\* and the calls it made to its model or client (asked)
NoStrategyCall ==
    [pc |-> "idle", kind |-> REGEX, spec |-> NoSpec, labels |-> <<>>, text |-> <<>>,
     answer |-> NoOutcome, out |-> NoOutcome, consulted |-> <<>>, asked |-> <<>>]

\* parse_resume called on a path: what the file system holds there (file),
\* what the parser and the coordinator do when called (pa, ca); what
\* parse_resume did (out) and the calls it made to parsers and coordinator
NoParseCall ==
    [pc |-> "idle", file |-> [name |-> <<>>, exists |-> FALSE, is_file |-> FALSE],
     pa |-> NoOutcome, ca |-> NoOutcome, out |-> NoOutcome,
     parser_calls |-> <<>>, extractor_calls |-> <<>>]

\* a ResumeData record, the result of to_dict() and of to_json(indent) and
\* what json.loads makes of the latter
NoRecord ==
    [pc |-> "idle", data |-> NoResume, dict |-> <<>>, indent |-> 0,
     json |-> <<>>, loaded |-> [ok |-> FALSE, v |-> <<>>]]

Init ==
    /\ built = "new"
    /\ arg = NoneMapping
    /\ extractors = NoneMapping
    /\ init_raised = NoError
    /\ call = Idle
    /\ callB = Idle
    /\ varied = NAME
    /\ fx = NoFieldCall
    /\ fac = NoFactoryCall
    /\ sx = NoStrategyCall
    /\ fw = NoParseCall
    /\ rec = NoRecord
    /\ events = <<>>
    /\ facade = NoFramework

\* ResumeExtractor(a)
Construct(a) ==
    /\ built = "new"
    /\ arg' = a
    /\ init_raised' = init_error(a)
    /\ built' = IF init_error(a) = NoError THEN "ok" ELSE "failed"
    /\ extractors' = IF init_error(a) = NoError THEN a ELSE extractors
    /\ UNCHANGED <<moreVars, call, callB, varied, fx, fac, sx>>

\* coordinator.extract(t) is entered (a new call once the last one ended)
Extract(t) ==
    /\ built = "ok"
    /\ call.pc \in {"idle", "returned", "raised"}
    /\ call' = extract_begin(t)
    /\ UNCHANGED <<moreVars, coordVars, callB, varied, fx, fac, sx>>

Resolving(c) == c.pc = "running" /\ c.cur <= 3

\* the next extractor of the current chain is called
TryExtractor ==
    /\ Resolving(call)
    /\ LET chain == chain_of(extractors, FieldOrder[call.cur])
       IN  /\ chain # <<>>
           /\ \E so \in AnswersOf(chain[call.idx + 1]) :
                 \E o \in OutcomesGiven(chain[call.idx + 1], call.text, so) :
                     call' = Answered(try_extractor(chain, call, o), so)
    /\ UNCHANGED <<moreVars, coordVars, callB, varied, fx, fac, sx>>

\* a field whose chain is empty: the loop body never runs
EmptyChain ==
    /\ Resolving(call)
    /\ chain_of(extractors, FieldOrder[call.cur]) = <<>>
    /\ call' = exhausted(call, FieldOrder[call.cur])
    /\ UNCHANGED <<moreVars, coordVars, callB, varied, fx, fac, sx>>

\* the three fields are resolved: the ResumeData is built and returned
ExtractReturn ==
    /\ call.pc = "running"
    /\ call.cur = 4
    /\ call' = extract_return(call)
    /\ UNCHANGED <<moreVars, coordVars, callB, varied, fx, fac, sx>>

Next ==
    \/ built = "new" /\ \E a \in Mappings : Construct(a)
    \/ built = "ok" /\ \E t \in ResumeTexts : Extract(t)
    \/ TryExtractor
    \/ EmptyChain
    \/ ExtractReturn

Spec == Init /\ [][Next]_vars

\* ------------------------------------------------ two runs, side by side
\* Two extract calls on one coordinator and one text.  The extractors of the
\* fields other than varied answer the same in both runs; those of varied
\* answer independently.

\* the next thing extract does in activation c, an extractor called in this
\* step answering o
run_step(ex, c, o) ==
    IF c.cur = 4 THEN extract_return(c)
    ELSE IF chain_of(ex, FieldOrder[c.cur]) = <<>>
    THEN exhausted(c, FieldOrder[c.cur])
    ELSE try_extractor(chain_of(ex, FieldOrder[c.cur]), c, o)

\* the answers the extractor called in the next step can give
StepChoices(ex, c) ==
    IF c.cur <= 3 /\ chain_of(ex, FieldOrder[c.cur]) # <<>>
    THEN OutcomesOf(chain_of(ex, FieldOrder[c.cur])[c.idx + 1], c.text)
    ELSE {NoOutcome}

\* the coordinators and texts on which two runs are compared
PairMappings ==
    {a \in Mappings :
        \A f \in DOMAIN a.m :
            /\ Len(a.m[f]) <= MaxPairChain
            /\ \A i \in 1..Len(a.m[f]) : a.m[f][i].kind # "skills_extractor"}
PairTexts == {T_blank, T_contact}

Ended(c) == c.pc \in {"returned", "raised"}

\* activation a has gone beyond the point where b stands
Past(a, b) ==
    Ended(a) \/ a.cur > b.cur \/ (a.cur = b.cur /\ a.idx > b.idx)

InVaried(c) == c.cur <= 3 /\ FieldOrder[c.cur] = varied

PairExtract(t, v) ==
    /\ built = "ok"
    /\ call.pc \in {"idle", "returned", "raised"}
    /\ callB.pc \in {"idle", "returned", "raised"}
    /\ call' = extract_begin(t)
    /\ callB' = extract_begin(t)
    /\ varied' = v
    /\ UNCHANGED <<moreVars, coordVars, fx, fac, sx>>

\* both runs take the same step; an extractor they both call answers the same
PairShared ==
    /\ call.pc = "running" /\ callB.pc = "running"
    /\ call.cur = callB.cur /\ call.idx = callB.idx
    /\ ~InVaried(call)
    /\ \E o \in StepChoices(extractors, call) :
          /\ call' = run_step(extractors, call, o)
          /\ callB' = run_step(extractors, callB, o)
    /\ UNCHANGED <<moreVars, coordVars, varied, fx, fac, sx>>

\* the first run steps on its own
PairOwnA ==
    /\ call.pc = "running"
    /\ InVaried(call) \/ Past(callB, call)
    /\ \E o \in StepChoices(extractors, call) :
          call' = run_step(extractors, call, o)
    /\ UNCHANGED <<moreVars, coordVars, callB, varied, fx, fac, sx>>

\* the second run steps on its own, once the first is beyond that point
PairOwnB ==
    /\ callB.pc = "running"
    /\ Past(call, callB)
    /\ \E o \in StepChoices(extractors, callB) :
          callB' = run_step(extractors, callB, o)
    /\ UNCHANGED <<moreVars, coordVars, call, varied, fx, fac, sx>>

NextPair ==
    \/ built = "new" /\ \E a \in PairMappings : Construct(a)
    \/ built = "ok" /\ \E t \in PairTexts, v \in FieldType : PairExtract(t, v)
    \/ PairShared
    \/ PairOwnA
    \/ PairOwnB

SpecPair == Init /\ [][NextPair]_vars

\* -------------------------------------------- a field extractor on its own
\* what a wrapped strategy can be scripted to do
X_py == Item(<<"P", "y">>)
X_sql == Item(<<"S", "Q", "L">>)
X_mail == Item(<<"j", "@", "e", ".", "c", "o", "m">>)
\* "a@b.c": an address-like candidate whose TLD has one letter
X_short == Item(<<"a", "@", "b", ".", "c">>)
StrategyOutcomes ==
    {Raise("NoMatchFoundError"), Raise("StrategyExtractionError"),
     Raise("ExternalServiceError"), Raise("InvalidStrategyConfigError"),
     Raise("ValueError"),
     Return(None), Return(List(<<>>)),
     Return(List(<<X_mail>>)), Return(List(<<X_mail, X_short>>)),
     Return(List(<<X_short, X_mail>>)), Return(List(<<X_py, X_sql>>)),
     Return(List(<<X_sql, X_py, X_sql>>)), Return(List(<<NoneItem, X_py>>))}

\* NameExtractor / EmailExtractor / SkillsExtractor (strategy).extract(text)
FieldExtract(f, text, so) ==
    /\ fx' = [pc |-> "done", field |-> f, text |-> text, so |-> so,
              out |-> FieldExtractor_extract(f, text, so),
              strategy_calls |-> strategy_calls(f, text)]
    /\ UNCHANGED <<moreVars, coordVars, call, callB, varied, fac, sx>>

NextField ==
    \E f \in FieldType, text \in Texts, so \in StrategyOutcomes :
        FieldExtract(f, text, so)

SpecField == Init /\ [][NextField]_vars

\* ------------------------------------------------- the factory and its use
\* what the recognition model can do when asked for entities
EntityAnswers ==
    {Raise("Exception"), Return(List(<<>>)),
     Return(List(<<Item(<<"j", "@", "e", ".", "c", "o", "m">>)>>)),
     Return(List(<<Item(<<"P", "y">>), Item(<<"S", "Q", "L">>)>>)),
     Return(List(<<Item(<<"S", "Q", "L">>), Item(<<"P", "y">>), Item(<<"G", "o">>),
                   Item(<<"S", "Q", "L">>)>>))}

Q == "\""
\* responses of the generative client:  ["Py", "Go", "C"]  inside prose, an
\* array with falsy and padded items, the empty array, a bare value, the
\* sentinel in lower case, two arrays, a blank response
Resp_array == <<"H", ":", " ", "[", Q, "P", "y", Q, ",", " ", Q, "G", "o", Q,
                ",", Q, "C", Q, "]", " ", "o", "k">>
Resp_mixed == <<"[", Q, Q, ",", "0", ",", "n", "u", "l", "l", ",", Q, " ", "a", Q,
                ",", "1", "2", ",", Q, "b", Q, "]">>
Resp_none == <<"[", "]">>
Resp_bare == <<" ", "j", "@", "e", ".", "c", "o", "m", "\n">>
Resp_sentinel == <<"n", "o", "t", "_", "f", "o", "u", "n", "d">>
Resp_two == <<"[", Q, "a", Q, "]", " ", "[", Q, "b", Q, "]">>
Resp_blank == <<" ", "\n">>
Responses ==
    {Resp_array, Resp_mixed, Resp_none, Resp_bare, Resp_sentinel, Resp_two, Resp_blank}

\* what the generative client can do when asked to generate
ClientAnswers == {Raise("Exception"), Return(None)} \cup {Return(Str(r)) : r \in Responses}

\* what stands behind a strategy of class kd
AnswersBehind(kd) ==
    CASE kd = REGEX -> {NoOutcome}
      [] kd = NER -> EntityAnswers
      [] kd = LLM -> ClientAnswers

FactoryTexts == {T_blank, T_contact, T_two}

\* create_extractor(f, st) in surroundings env
CreateExtractor(f, st, env) ==
    /\ fac' = [NoFactoryCall EXCEPT
                  !.pc = IF create_extractor(f, st, env).err = NoError
                         THEN "built" ELSE "failed",
                  !.field = f, !.strategy_type = st, !.env = env,
                  !.made = create_extractor(f, st, env)]
    /\ UNCHANGED <<moreVars, coordVars, call, callB, varied, fx, sx>>

\* extract(text) on the extractor the factory returned
UseExtractor(text, answer) ==
    /\ fac.pc \in {"built", "used"}
    /\ answer \in AnswersBehind(fac.strategy_type)
    /\ fac' = [fac EXCEPT !.pc = "used", !.text = text, !.answer = answer,
                          !.out = extractor_extract(fac.made.extractor, text, answer)]
    /\ UNCHANGED <<moreVars, coordVars, call, callB, varied, fx, sx>>

NextFactory ==
    \/ \E f \in FieldType, st \in StrategyType, env \in Envs : CreateExtractor(f, st, env)
    \/ \E text \in FactoryTexts, answer \in EntityAnswers \cup ClientAnswers \cup {NoOutcome} :
          UseExtractor(text, answer)

SpecFactory == Init /\ [][NextFactory]_vars

\* ------------------------------------------------- a strategy on its own
\* top_k: None, 0 and 1..MaxTopK
Limits == {TopKNone} \cup {TopK(n) : n \in 0..MaxTopK}

\* the pattern lists of the specs a RegexExtractionStrategy is made with
PatternLists ==
    {<<DIGITS_PATTERN, LETTERS_PATTERN>>, <<LETTERS_PATTERN, DIGITS_PATTERN>>,
     <<RANGE_PATTERN, LETTERS_PATTERN>>, <<EMAIL_PATTERN, RANGE_PATTERN>>}

\* the specs a strategy of class kd is made with
StrategySpecs(kd) ==
    CASE kd = REGEX -> {FieldSpec(EMAIL, ps, "", k) : ps \in PatternLists, k \in Limits}
      [] kd = NER -> {FieldSpec(SKILLS, <<>>, lb, k) : lb \in {"", "skill"}, k \in Limits}
      [] kd = LLM -> {FieldSpec(SKILLS, <<>>, "skill", k) : k \in Limits}

\* default_entity_labels of an entity strategy: None or ["person"]
DefaultLabels(kd) == IF kd = NER THEN {<<>>, <<"person">>} ELSE {<<>>}

\* "Py go C", "ab 12 c 7 d", "1-2-3-4" and "a-b"
S_words == <<"P", "y", " ", "g", "o", " ", "C">>
S_mixed == <<"a", "b", " ", "1", "2", " ", "c", " ", "7", " ", "d">>
S_range == <<"1", "-", "2", "-", "3", "-", "4">>
S_dash == <<"a", "-", "b">>
StrategyTexts == {T_empty, T_blank, T_two, S_words, S_mixed, S_range, S_dash}

\* the texts a strategy of class kd is called on: what a model or client
\* does with a text is its answer, so one text that is not blank is enough
StrategyTextsOf(kd) == IF kd = REGEX THEN StrategyTexts ELSE {T_empty, T_blank, T_two}

\* more responses of the generative client:  ["", 0, null]  (nothing is left
\* after filtering),  {"k": "v"}  (an object),  {"a": ["x"]}  (an object that
\* holds an array),  ["a"  (no closing bracket),  x ["a]", "c"] y  (a closing
\* bracket inside an item),  NOT_FOUND  and  [" ", "b"]  (an item of blanks)
Resp_falsy == <<"[", Q, Q, ",", " ", "0", ",", " ", "n", "u", "l", "l", "]">>
Resp_object == <<"{", Q, "k", Q, ":", " ", Q, "v", Q, "}">>
Resp_nested == <<"{", Q, "a", Q, ":", " ", "[", Q, "x", Q, "]", "}">>
Resp_open == <<"[", Q, "a", Q>>
Resp_inner == <<"x", " ", "[", Q, "a", "]", Q, ",", " ", Q, "c", Q, "]", " ", "y">>
Resp_exact == NOT_FOUND
Resp_space == <<"[", Q, " ", Q, ",", " ", Q, "b", Q, "]">>
StrategyResponses ==
    Responses \cup {Resp_falsy, Resp_object, Resp_nested, Resp_open, Resp_inner,
                    Resp_exact, Resp_space}

\* what stands behind a strategy of class kd that is called on its own
StrategyAnswers(kd) ==
    IF kd = LLM
    THEN {Raise("Exception"), Return(None), Return(Str(<<>>))}
            \cup {Return(Str(r)) : r \in StrategyResponses}
    ELSE AnswersBehind(kd)

\* strategy.extract of a strategy of class kd made with spec, the entity
\* strategy being called the way ner.py defines it, extract(text, spec)
Strategy_extract(kd, spec, labels, text, answer) ==
    CASE kd = REGEX -> RegexExtractionStrategy_extract(spec, text)
      [] kd = NER -> NERExtractionStrategy_extract(NERStrategy(labels), text, spec, answer)
      [] kd = LLM -> LLMExtractionStrategy_extract(spec, text, answer)

\* the calls that extract makes to the model or client behind the strategy
Strategy_asked(kd, spec, labels, text) ==
    CASE kd = REGEX -> <<>>
      [] kd = NER -> NERExtractionStrategy_predicts(NERStrategy(labels), text, spec)
      [] kd = LLM -> LLMExtractionStrategy_generates(spec, text)

StrategyExtract(kd, spec, labels, text, answer) ==
    /\ sx' = [pc |-> "done", kind |-> kd, spec |-> spec, labels |-> labels,
              text |-> text, answer |-> answer,
              out |-> Strategy_extract(kd, spec, labels, text, answer),
              consulted |-> IF kd = REGEX
                            THEN RegexExtractionStrategy_consulted(spec, text)
                            ELSE <<>>,
              asked |-> Strategy_asked(kd, spec, labels, text)]
    /\ UNCHANGED <<moreVars, coordVars, call, callB, varied, fx, fac>>

NextStrategy ==
    \E kd \in StrategyType :
        \E spec \in StrategySpecs(kd), labels \in DefaultLabels(kd),
           text \in StrategyTextsOf(kd), answer \in StrategyAnswers(kd) :
            StrategyExtract(kd, spec, labels, text, answer)

SpecStrategy == Init /\ [][NextStrategy]_vars

\* ------------------------------ the facade (resume_parser_framework.py)
\* str.lower()
lower(t) ==
    [i \in 1..Len(t) |->
        IF t[i] \in Upper
        THEN LowerSeq[CHOOSE k \in 1..26 : UpperSeq[k] = t[i]]
        ELSE t[i]]

\* Path(file_path).suffix for a path that is a file name: the name from its
\* last "." on, "" when that "." is the first or the last character of the
\* name or when there is none
suffix(name) ==
    IF Contains(name, ".") /\ rindex(name, ".") > 1 /\ rindex(name, ".") < Len(name)
    THEN SubSeq(name, rindex(name, "."), Len(name))
    ELSE <<>>

EXT_PDF == <<".", "p", "d", "f">>
EXT_DOCX == <<".", "d", "o", "c", "x">>
EXT_DOC == <<".", "d", "o", "c">>
SUPPORTED_EXTENSIONS == {EXT_PDF, EXT_DOCX, EXT_DOC}

\* faulty variant: .doc files go to the PDF parser
parsers_doc_to_pdf(extension) ==
    IF extension = EXT_DOCX THEN "word_parser" ELSE "pdf_parser"

\* self.parsers.get(extension), lines 62-66 and 168, for a supported extension
parsers(extension) ==
    IF extension = EXT_PDF THEN "pdf_parser" ELSE "word_parser"

\* what the file system holds at a path
File(nm, ex, isf) == [name |-> nm, exists |-> ex, is_file |-> isf]

\* faulty variant: the extension is looked at before the path
check_path_extension_first(file) ==
    IF lower(suffix(file.name)) \notin SUPPORTED_EXTENSIONS
    THEN Raise("UnsupportedFileFormatError")
    ELSE IF ~file.exists THEN Raise("FileNotFoundError")
    ELSE IF ~file.is_file THEN Raise("ValueError")
    ELSE NoOutcome

\* parse_resume, lines 146-165: what the checks of the path raise, NoOutcome
\* when the path passes them
check_path(file) ==
    IF ~file.exists THEN Raise("FileNotFoundError")
    ELSE IF ~file.is_file THEN Raise("ValueError")
    ELSE IF lower(suffix(file.name)) \notin SUPPORTED_EXTENSIONS
    THEN Raise("UnsupportedFileFormatError")
    ELSE NoOutcome

\* lines 178-185: parser.parse(file_path) and len(text), the parser doing pa;
\* a parser that returns None makes len(text) raise TypeError
parse_step(pa) ==
    IF pa.k = "raise"
    THEN (IF Caught(pa.exc) THEN RaiseFrom("FileParsingError", pa.exc) ELSE pa)
    ELSE IF pa.v.t # "str" THEN RaiseFrom("FileParsingError", "TypeError")
    ELSE pa

\* parse_resume(file_path), the selected parser doing pa and the coordinator
\* doing ca when called
parse_resume(file, pa, ca) ==
    IF check_path(file) # NoOutcome
    THEN [out |-> check_path(file), parser_calls |-> <<>>, extractor_calls |-> <<>>]
    ELSE LET used == <<[parser |-> parsers(lower(suffix(file.name))),
                        file_path |-> file.name]>>
         IN  IF parse_step(pa).k = "raise"
             THEN [out |-> parse_step(pa), parser_calls |-> used,
                   extractor_calls |-> <<>>]
             ELSE [out |-> ca, parser_calls |-> used,
                   extractor_calls |-> <<pa.v.s>>]

\* r.pdf, R.PDF, r.Docx, r.doc, r.txt, r, .pdf and r.pdf.bak
N_pdf == <<"r", ".", "p", "d", "f">>
N_upper == <<"R", ".", "P", "D", "F">>
N_docx == <<"r", ".", "D", "o", "c", "x">>
N_doc == <<"r", ".", "d", "o", "c">>
N_txt == <<"r", ".", "t", "x", "t">>
N_bare == <<"r">>
N_hidden == <<".", "p", "d", "f">>
N_bak == <<"r", ".", "p", "d", "f", ".", "b", "a", "k">>
FileNames == {N_pdf, N_upper, N_docx, N_doc, N_txt, N_bare, N_hidden, N_bak}

\* nothing at the path, a directory, a file
Files ==
    {File(nm, FALSE, FALSE) : nm \in FileNames}
    \cup {File(nm, TRUE, isf) : nm \in FileNames, isf \in BOOLEAN}

\* what a file parser and the coordinator can do when called
ParserAnswers ==
    {Raise("Exception"), Raise("FileParsingError"), Return(None),
     Return(Str(T_two)), Return(Str(T_blank))}
CoordinatorAnswers ==
    {Raise("ValueError"), Raise("FieldExtractionError"),
     Return(ResumeData(V_john, None, List(<<>>)))}

ParseResume(file, pa, ca) ==
    /\ fw' = [pc |-> "done", file |-> file, pa |-> pa, ca |-> ca,
              out |-> parse_resume(file, pa, ca).out,
              parser_calls |-> parse_resume(file, pa, ca).parser_calls,
              extractor_calls |-> parse_resume(file, pa, ca).extractor_calls]
    /\ UNCHANGED <<coordVars, call, callB, varied, fx, fac, sx, rec, events, facade>>

NextFacade ==
    \E file \in Files, pa \in ParserAnswers, ca \in CoordinatorAnswers :
        ParseResume(file, pa, ca)

SpecFacade == Init /\ [][NextFacade]_vars

\* --------------------------------------- the record (models/resume_data.py)
\* a dict as the sequence of its items, in insertion order
Pair(k, v) == [key |-> k, value |-> v]

\* ResumeData.to_dict(): asdict(self), the fields in the order of the class
to_dict(self) ==
    <<Pair(<<"n", "a", "m", "e">>, self.name),
      Pair(<<"e", "m", "a", "i", "l">>, self.email),
      Pair(<<"s", "k", "i", "l", "l", "s">>, self.skills)>>

\* indent: None or an int
IndentNone == [isNone |-> TRUE, n |-> 0]
Indent(n) == [isNone |-> FALSE, n |-> n]

RECURSIVE Concat(_)
Concat(seqs) == IF seqs = <<>> THEN <<>> ELSE Head(seqs) \o Concat(Tail(seqs))

\* seqs joined by sep
RECURSIVE Join(_, _)
Join(seqs, sep) ==
    IF Len(seqs) <= 1 THEN Concat(seqs)
    ELSE Head(seqs) \o sep \o Join(Tail(seqs), sep)

\* ' ' * n
Spaces(n) == [i \in 1..n |-> " "]

\* faulty variant: quotes and backslashes go out as they are
encode_char_plain(c) == <<c>>

\* json.encoder, ESCAPE_DCT: one character of a string, for strings made of
\* printable ASCII characters, \n, \t and \r
encode_char(c) ==
    CASE c = "\"" -> <<"\\", "\"">>
      [] c = "\\" -> <<"\\", "\\">>
      [] c = "\n" -> <<"\\", "n">>
      [] c = "\t" -> <<"\\", "t">>
      [] c = "\r" -> <<"\\", "r">>
      [] OTHER -> <<c>>

\* json.encoder.encode_basestring_ascii(s)
encode_basestring_ascii(x) ==
    <<"\"">> \o Concat([i \in 1..Len(x) |-> encode_char(x[i])]) \o <<"\"">>

\* '\n' + indent * level, nothing when indent is None
newline_indent(indent, level) ==
    IF indent.isNone THEN <<>> ELSE <<"\n">> \o Spaces(indent.n * level)

\* the item separator: ', ' when indent is None, ',' and a new line otherwise
item_separator(indent, level) ==
    IF indent.isNone THEN <<",", " ">> ELSE <<",">> \o newline_indent(indent, level)

\* json.encoder._iterencode of a value of a field: None, a str or a list of
\* str, inside an object at nesting level 1
encode_value(v, indent) ==
    CASE v.t = "none" -> <<"n", "u", "l", "l">>
      [] v.t = "str" -> encode_basestring_ascii(v.s)
      [] v.t = "list" ->
            IF v.l = <<>> THEN <<"[", "]">>
            ELSE <<"[">> \o newline_indent(indent, 2)
                 \o Join([i \in 1..Len(v.l) |-> encode_basestring_ascii(v.l[i].s)],
                         item_separator(indent, 2))
                 \o newline_indent(indent, 1) \o <<"]">>

\* json.dumps(d, indent=indent) for a dict d that is not empty
dumps(d, indent) ==
    <<"{">> \o newline_indent(indent, 1)
    \o Join([i \in 1..Len(d) |->
                encode_basestring_ascii(d[i].key) \o <<":", " ">>
                \o encode_value(d[i].value, indent)],
            item_separator(indent, 1))
    \o newline_indent(indent, 0) \o <<"}">>

\* ResumeData.to_json(indent)
to_json(self, indent) == dumps(to_dict(self), indent)

\* json.decoder: the whitespace of JSON texts
JsonWhitespace == {" ", "\n", "\t", "\r"}
skip(t, i) == RunEnd(t, i, JsonWhitespace)

ScanFail == [ok |-> FALSE, v |-> None, next |-> 0]

\* json.decoder.py_scanstring from index i, which follows the opening quote,
\* acc being what was read so far: a control character is an error, a
\* backslash starts one of the escapes \" \\ \/ \n \t \r
RECURSIVE py_scanstring(_, _, _)
py_scanstring(t, i, acc) ==
    IF i > Len(t) THEN ScanFail
    ELSE IF t[i] = "\"" THEN [ok |-> TRUE, v |-> Str(acc), next |-> i + 1]
    ELSE IF t[i] \in {"\n", "\t", "\r"} THEN ScanFail
    ELSE IF t[i] # "\\" THEN py_scanstring(t, i + 1, Append(acc, t[i]))
    ELSE IF i + 1 > Len(t) THEN ScanFail
    ELSE CASE t[i + 1] \in {"\"", "\\", "/"} -> py_scanstring(t, i + 2, Append(acc, t[i + 1]))
           [] t[i + 1] = "n" -> py_scanstring(t, i + 2, Append(acc, "\n"))
           [] t[i + 1] = "t" -> py_scanstring(t, i + 2, Append(acc, "\t"))
           [] t[i + 1] = "r" -> py_scanstring(t, i + 2, Append(acc, "\r"))
           [] OTHER -> ScanFail

\* the strings of an array from index i on, which follows "[" or ","
RECURSIVE scan_array(_, _, _)
scan_array(t, i, acc) ==
    LET j == skip(t, i)
        x == IF j <= Len(t) /\ t[j] = "\"" THEN py_scanstring(t, j + 1, <<>>) ELSE ScanFail
        k == skip(t, x.next)
    IN  IF ~x.ok \/ k > Len(t) THEN ScanFail
        ELSE IF t[k] = "," THEN scan_array(t, k + 1, Append(acc, Item(x.v.s)))
        ELSE IF t[k] = "]"
        THEN [ok |-> TRUE, v |-> List(Append(acc, Item(x.v.s))), next |-> k + 1]
        ELSE ScanFail

\* json.scanner: one value at index i: null, a string or an array of strings
scan_once(t, i) ==
    IF i > Len(t) THEN ScanFail
    ELSE IF t[i] = "\"" THEN py_scanstring(t, i + 1, <<>>)
    ELSE IF i + 3 <= Len(t) /\ SubSeq(t, i, i + 3) = <<"n", "u", "l", "l">>
    THEN [ok |-> TRUE, v |-> None, next |-> i + 4]
    ELSE IF t[i] = "["
    THEN (IF skip(t, i + 1) <= Len(t) /\ t[skip(t, i + 1)] = "]"
          THEN [ok |-> TRUE, v |-> List(<<>>), next |-> skip(t, i + 1) + 1]
          ELSE scan_array(t, i + 1, <<>>))
    ELSE ScanFail

\* json.decoder.JSONObject: the items of an object from index i on, which
\* follows "{" or ","
RECURSIVE scan_object(_, _, _)
scan_object(t, i, acc) ==
    LET j == skip(t, i)
        key == IF j <= Len(t) /\ t[j] = "\"" THEN py_scanstring(t, j + 1, <<>>) ELSE ScanFail
        c == skip(t, key.next)
        val == IF key.ok /\ c <= Len(t) /\ t[c] = ":"
               THEN scan_once(t, skip(t, c + 1)) ELSE ScanFail
        k == skip(t, val.next)
    IN  IF ~val.ok \/ k > Len(t) THEN [ok |-> FALSE, v |-> <<>>, next |-> 0]
        ELSE IF t[k] = "," THEN scan_object(t, k + 1, Append(acc, Pair(key.v.s, val.v)))
        ELSE IF t[k] = "}"
        THEN [ok |-> TRUE, v |-> Append(acc, Pair(key.v.s, val.v)), next |-> k + 1]
        ELSE [ok |-> FALSE, v |-> <<>>, next |-> 0]

\* json.loads(t) for a text that holds an object that is not empty: ok is
\* FALSE for a JSONDecodeError, v is the dict
loads(t) ==
    LET i == skip(t, 1)
        o == IF i <= Len(t) /\ t[i] = "{" THEN scan_object(t, i + 1, <<>>)
             ELSE [ok |-> FALSE, v |-> <<>>, next |-> 0]
    IN  IF o.ok /\ skip(t, o.next) = Len(t) + 1 THEN [ok |-> TRUE, v |-> o.v]
        ELSE [ok |-> FALSE, v |-> <<>>]

\* names, emails and skills of records:  O"Neil,  a\b  with a new line and a
\* tab,  ["Py"]  and  ["C, \"D\"", "", "x]"]
V_quote == <<"O", "\"", "N", "e", "i", "l">>
V_slash == <<"a", "\\", "b", "\n", "\t", "c">>
Names == {None, Str(<<>>), V_john, Str(V_quote), Str(V_slash)}
Emails == {None, Str(<<"j", "@", "e", ".", "c", "o", "m">>), Str(<<" ">>)}
SkillLists ==
    {None, List(<<>>), List(<<Item(<<"P", "y">>)>>),
     List(<<Item(<<"C", ",", " ", "\"", "D", "\"">>), Item(<<>>), Item(<<"x", "]">>)>>)}
Indents == {IndentNone} \cup {Indent(n) : n \in {-1, 0, 1, 2, 4}}

\* ResumeData(name=n, email=e, skills=sk)
NewResumeData(n, e, sk) ==
    /\ rec' = [NoRecord EXCEPT !.pc = "made", !.data = ResumeData(n, e, sk)]
    /\ UNCHANGED <<coordVars, call, callB, varied, fx, fac, sx, fw, events, facade>>

\* record.to_dict()
ToDict ==
    /\ rec.pc # "idle"
    /\ rec' = [rec EXCEPT !.pc = "dict", !.dict = to_dict(rec.data)]
    /\ UNCHANGED <<coordVars, call, callB, varied, fx, fac, sx, fw, events, facade>>

\* json.loads(record.to_json(indent))
ToJson(indent) ==
    /\ rec.pc = "dict"
    /\ rec' = [rec EXCEPT !.pc = "json", !.indent = indent,
                          !.json = to_json(rec.data, indent),
                          !.loaded = loads(to_json(rec.data, indent))]
    /\ UNCHANGED <<coordVars, call, callB, varied, fx, fac, sx, fw, events, facade>>

NextRecord ==
    \/ \E n \in Names, e \in Emails, sk \in SkillLists : NewResumeData(n, e, sk)
    \/ ToDict
    \/ \E indent \in Indents : ToJson(indent)

SpecRecord == Init /\ [][NextRecord]_vars

\* ------------------------------- the calls of one extract, start and end
\* an extractor call starts or ends; ok: it ended with a meaningful value
Event(kd, e, okv) == [ev |-> kd, field |-> e.field, pos |-> e.pos, ok |-> okv]

\* coordinators given a chain of up to MaxPairChain stubs for each field
OrderMappings ==
    {a \in Mappings :
        /\ ~a.isNone
        /\ DOMAIN a.m = FieldType
        /\ \A f \in FieldType :
              /\ Len(a.m[f]) <= MaxPairChain
              /\ \A i \in 1..Len(a.m[f]) : a.m[f][i].kind = "stub"}

\* a stub raises, returns None or returns a value
OrderOutcomes == {Raise("Exception"), Return(None), Return(V_john)}

\* extract(t) is entered
BeginExtract(t) ==
    /\ built = "ok"
    /\ call.pc \in {"idle", "returned", "raised"}
    /\ call' = extract_begin(t)
    /\ events' = <<>>
    /\ UNCHANGED <<coordVars, callB, varied, fx, fac, sx, fw, rec, facade>>

\* line 117: extractor.extract(text) is entered; the loop waits for it
InvokeExtractor ==
    /\ Resolving(call)
    /\ LET chain == chain_of(extractors, FieldOrder[call.cur])
       IN  /\ chain # <<>>
           /\ call' = [call EXCEPT !.pc = "calling"]
           /\ events' = Append(events, Event("call", chain[call.idx + 1], FALSE))
    /\ UNCHANGED <<coordVars, callB, varied, fx, fac, sx, fw, rec, facade>>

\* lines 117-134: the call comes back, doing o, and the loop goes on
FinishExtractor(o) ==
    /\ call.pc = "calling"
    /\ LET chain == chain_of(extractors, FieldOrder[call.cur])
       IN  /\ call' = try_extractor(chain, [call EXCEPT !.pc = "running"], o)
           /\ events' = Append(events, Event("end", chain[call.idx + 1], ReturnedValue(o)))
    /\ UNCHANGED <<coordVars, callB, varied, fx, fac, sx, fw, rec, facade>>

NextOrder ==
    \/ built = "new" /\ \E a \in OrderMappings : Construct(a)
    \/ BeginExtract(T_two)
    \/ InvokeExtractor
    \/ \E o \in OrderOutcomes : FinishExtractor(o)
    \/ EmptyChain
    \/ ExtractReturn

SpecOrder == Init /\ [][NextOrder]_vars

\* ----------------------------- construction of the facade from the config
\* ExtractionConfig(strategy_preferences=p); NoConfig is config=None
ExtractionConfig(p) == [isNone |-> FALSE, strategy_preferences |-> p]
NoConfig == [isNone |-> TRUE, strategy_preferences |-> <<>>]

\* faulty variant: a field that is not configured gets every strategy
get_strategies_for_field_all(self, f) ==
    IF f \in DOMAIN self.strategy_preferences
    THEN self.strategy_preferences[f]
    ELSE <<REGEX, NER, LLM>>

\* self.strategy_preferences.get(field_type, [])
get_strategies_for_field(self, f) ==
    IF f \in DOMAIN self.strategy_preferences
    THEN self.strategy_preferences[f]
    ELSE <<>>

DEFAULT_EXTRACTION_CONFIG ==
    ExtractionConfig((NAME :> <<NER, LLM>>)
                     @@ (EMAIL :> <<REGEX, NER, LLM>>)
                     @@ (SKILLS :> <<LLM, NER>>))

\* self.config = config or DEFAULT_EXTRACTION_CONFIG
self_config(config) == IF config.isNone THEN DEFAULT_EXTRACTION_CONFIG ELSE config

\* what _create_extractor does: the error it raises (NoError: a coordinator
\* was constructed), the mapping handed to ResumeExtractor and the calls of
\* the factory in order, each with whether it returned an extractor
FrameworkResult(e, x, cr) == [err |-> e, extractors |-> x, created |-> cr]

\* the loop over the strategies of one field, lines 99-112: the extractors
\* appended to field_extractors and the calls of the factory; a failure of
\* the factory that "except Exception" does not catch leaves the loop
RECURSIVE field_extractors(_, _, _)
field_extractors(f, strategies, env) ==
    IF strategies = <<>> THEN [err |-> NoError, list |-> <<>>, created |-> <<>>]
    ELSE LET r == create_extractor(f, Head(strategies), env)
             attempt == [field |-> f, strategy_type |-> Head(strategies),
                         ok |-> r.err = NoError]
         IN  IF r.err # NoError /\ ~Caught(r.err.type)
             THEN [err |-> r.err, list |-> <<>>, created |-> <<attempt>>]
             ELSE LET rest == field_extractors(f, Tail(strategies), env)
                  IN  [err |-> rest.err,
                       list |-> (IF r.err = NoError THEN <<r.extractor>> ELSE <<>>)
                                   \o rest.list,
                       created |-> <<attempt>> \o rest.created]

\* the loop over the field types, lines 92-119, from the i-th of them on,
\* with extractors_dict d and the factory calls cr made so far
RECURSIVE _create_extractor_from(_, _, _, _, _)
_create_extractor_from(config, env, i, d, cr) ==
    IF i > 3
    THEN FrameworkResult(init_error(Dict(d)),
                         IF init_error(Dict(d)) = NoError THEN Dict(d) ELSE NoneMapping,
                         cr)
    ELSE LET f == <<NAME, EMAIL, SKILLS>>[i]
             fe == field_extractors(f, get_strategies_for_field(config, f), env)
         IN  IF fe.err # NoError
             THEN FrameworkResult(fe.err, NoneMapping, cr \o fe.created)
             ELSE IF fe.list = <<>>
             THEN FrameworkResult(
                      Error("RuntimeError", "Failed to create any extractors for", {f}, ""),
                      NoneMapping, cr \o fe.created)
             ELSE _create_extractor_from(config, env, i + 1,
                                         d @@ (f :> fe.list), cr \o fe.created)

\* ResumeParserFramework._create_extractor
_create_extractor(config, env) ==
    _create_extractor_from(config, env, 1, [x \in {} |-> <<>>], <<>>)

\* the lists of strategies a configuration may give a field: every list
\* that names no strategy twice, and one that does
Preferences ==
    {p \in UNION {[1..n -> StrategyType] : n \in 0..Cardinality(StrategyType)} :
        \A i, j \in 1..Len(p) : p[i] = p[j] => i = j}
    \cup {<<LLM, NER, LLM>>}

\* the configurations: none, or one that lists strategies for some fields
Configs ==
    {NoConfig} \cup
    {ExtractionConfig(p) : p \in UNION {[fs -> Preferences] : fs \in SUBSET FieldType}}

\* the surroundings: everything loads, the entity model does not load, the
\* client does not load, neither the model loads nor is there an API key
BuildEnvs ==
    {Env("ok", TRUE, "ok"), Env("fails", TRUE, "ok"), Env("ok", TRUE, "fails"),
     Env("fails", FALSE, "ok")}

\* ResumeParserFramework(config), lines 59-69
NewFramework(config, env) ==
    /\ facade.pc = "new"
    /\ LET r == _create_extractor(self_config(config), env)
       IN  facade' = [pc |-> IF r.err = NoError THEN "ready" ELSE "failed",
                      config |-> config, env |-> env, made |-> r]
    /\ UNCHANGED <<coordVars, call, callB, varied, fx, fac, sx, fw, rec, events>>

NextBuild ==
    facade.pc = "new" /\ \E config \in Configs, env \in BuildEnvs : NewFramework(config, env)

SpecBuild == Init /\ [][NextBuild]_vars

\* -------------------------------------------------- repeated extract calls
\* faulty variant: the chain of a resolved field loses its first extractor
self_extractors_consumed(ex, f) ==
    [ex EXCEPT !.m[f] = IF @ = <<>> THEN @ ELSE Tail(@)]

\* self.extractors after _extract_field(f, text): the method reads the
\* mapping (line 105) and iterates over the list (line 112), it assigns to
\* neither
self_extractors(ex, f) == ex

RepeatTexts == {T_blank, T_contact, T_two}

\* extract(t) is entered again; callB keeps an earlier call of extract that
\* has ended, the latest one or one before it
RepeatExtract(t, keep) ==
    /\ built = "ok"
    /\ call.pc \in {"idle", "returned", "raised"}
    /\ call' = extract_begin(t)
    /\ callB' = IF keep \/ call.pc = "idle" THEN callB ELSE call
    /\ UNCHANGED <<moreVars, coordVars, varied, fx, fac, sx>>

\* one iteration of the loop of _extract_field, and what is left of
\* self.extractors when the field is resolved by it
RepeatTry(o) ==
    /\ Resolving(call)
    /\ LET f == FieldOrder[call.cur]
           chain == chain_of(extractors, f)
       IN  /\ chain # <<>>
           /\ call' = try_extractor(chain, call, o)
           /\ extractors' = IF call'.cur # call.cur
                            THEN self_extractors(extractors, f)
                            ELSE extractors
    /\ UNCHANGED <<moreVars, built, arg, init_raised, callB, varied, fx, fac, sx>>

NextRepeat ==
    \/ built = "new" /\ \E a \in OrderMappings : Construct(a)
    \/ \E t \in RepeatTexts, keep \in BOOLEAN : RepeatExtract(t, keep)
    \/ \E o \in OrderOutcomes : RepeatTry(o)
    \/ EmptyChain
    \/ ExtractReturn

SpecRepeat == Init /\ [][NextRepeat]_vars

\* the same program under the scheduling of a sequential interpreter: the
\* thread inside extract takes its next step when it has one, and a call
\* that was entered comes back (it returns or raises)
SpecOrderFair ==
    /\ SpecOrder
    /\ WF_vars(InvokeExtractor)
    /\ WF_vars(\E o \in OrderOutcomes : FinishExtractor(o))
    /\ WF_vars(EmptyChain)
    /\ WF_vars(ExtractReturn)

TypeOK ==
    /\ built \in {"new", "ok", "failed"}
    /\ call.pc \in {"idle", "running", "returned", "raised"}
    /\ call.cur \in 1..4
    /\ call.idx \in 0..MaxChain

\* ------------------------------------------------- properties: coordinator
\* the calls made to extractors of field f during the current extract
CallsOf(c, f) == SelectSeq(c.calls, LAMBDA r : r.field = f)

\* the field of the returned record
FieldOf(rd, f) ==
    CASE f = NAME -> rd.name
      [] f = EMAIL -> rd.email
      [] f = SKILLS -> rd.skills

\* glossary: a meaningful result is not None, not "" and not []
NonMeaningful(v) == v = None \/ v = Str(<<>>) \/ v = List(<<>>)
FailedOutcome(o) == o.k = "raise" \/ (o.k = "return" /\ NonMeaningful(o.v))

\* this step called an extractor
Invoked == Len(call'.calls) = Len(call.calls) + 1
InvokedRecord == call'.calls[Len(call'.calls)]

\* C1: the extractors of a chain are called in chain order with none left
\* out; once one of them has returned a meaningful value no later extractor
\* of that chain is called, and the field of the returned ResumeData is the
\* value of that first meaningful answer.
C1_FirstMeaningfulWins ==
    \A f \in FieldType :
        LET cf == CallsOf(call, f)
        IN  /\ \A j \in 1..Len(cf) : cf[j].pos = j - 1
            /\ \A j \in 1..Len(cf) :
                  cf[j].got =>
                     /\ j = Len(cf)
                     /\ call.pc = "returned" => FieldOf(call.ret, f) = cf[j].val

\* chain [A, B, ...] with A failing and B meaningful: B's value is returned
\* although the chain goes on after B
C1_Witness ==
    /\ call.pc = "returned"
    /\ \E f \in FieldType :
          /\ Len(chain_of(extractors, f)) > Len(CallsOf(call, f))
          /\ Len(CallsOf(call, f)) = 2
          /\ CallsOf(call, f)[2].got
          /\ FieldOf(call.ret, f) = CallsOf(call, f)[2].val

\* C2: when no extractor of a field's chain returned a meaningful value, the
\* returned ResumeData holds None for name and for email and the empty list
\* for skills.
C2_ExhaustionDefault ==
    call.pc = "returned" =>
        /\ call.ret.present
        /\ \A f \in FieldType :
              (\A j \in 1..Len(CallsOf(call, f)) : ~CallsOf(call, f)[j].got) =>
                 /\ Len(CallsOf(call, f)) = Len(chain_of(extractors, f))
                 /\ FieldOf(call.ret, f) = IF f = SKILLS THEN List(<<>>) ELSE None

C2_Witness ==
    /\ call.pc = "returned"
    /\ \A f \in FieldType :
          /\ Len(CallsOf(call, f)) = 2
          /\ \A j \in 1..2 : ~CallsOf(call, f)[j].got
    /\ call.ret = ResumeData(None, None, List(<<>>))

\* C3: a call that raises and a call that returns None, "" or [] have the
\* same effect: extract keeps running, nothing is raised, and the next
\* extractor of the same chain is the one to be called next (the chain is
\* resolved to its default when there is none).
C3_Step ==
    (Invoked /\ FailedOutcome(call'.last)) =>
        LET f == InvokedRecord.field
            n == Len(chain_of(extractors, f))
        IN  /\ call'.pc = "running"
            /\ call'.error = NoError
            /\ IF InvokedRecord.pos + 1 < n
               THEN /\ FieldOrder[call'.cur] = f
                    /\ call'.idx = InvokedRecord.pos + 1
                    /\ call'.done[f] = "no"
               ELSE /\ call'.done[f] = "default"
                    /\ call'.cur = call.cur + 1

C3_FailuresAdvance ==
    [][C3_Step /\ (Invoked => /\ InvokedRecord.field = FieldOrder[call.cur]
                              /\ InvokedRecord.pos = call.idx)]_vars

\* a raise was followed by a call of the next extractor, which answered []
C3_Witness ==
    /\ call.pc = "running"
    /\ call.last = Return(List(<<>>))
    /\ Len(call.calls) = 1
    /\ call.idx = 1
    /\ call.cur = 1

C6_BlankTextRejected ==
    (call.pc # "idle" /\ \A i \in 1..Len(call.text) : call.text[i] \in Whitespace) =>
        /\ call.pc = "raised"
        /\ call.error.type = "ValueError"
        /\ call.ret = NoResume
        /\ call.calls = <<>>

C6_Witness ==
    /\ call.pc = "raised"
    /\ call.text = T_blank
    /\ \A f \in FieldType : chain_of(extractors, f) # <<>>

\* the state of field f's chain in the terms of the design's state machine
Trying(i) == [st |-> "Trying", i |-> i]
Succeeded == [st |-> "Succeeded", i |-> 0]
ExhaustedFailed == [st |-> "ExhaustedFailed", i |-> 0]

ChainState(c, f) ==
    IF c.done[f] = "result" THEN Succeeded
    ELSE IF c.done[f] = "default" THEN ExhaustedFailed
    ELSE IF chain_of(extractors, f) = <<>> THEN ExhaustedFailed
    ELSE IF c.cur <= 3 /\ FieldOrder[c.cur] = f THEN Trying(c.idx)
    ELSE Trying(0)

\* C7: within one extract call a chain of length N starts at Trying(0); a
\* call of extractor i takes Trying(i) to Succeeded when it returns a
\* meaningful value, to Trying(i+1) when it fails and i+1 < N, and to
\* ExhaustedFailed when it fails and i = N-1; nothing else changes the state
\* of a chain, so no index is skipped or revisited and the terminal states
\* are never left.
C7_Step ==
    /\ (call.pc # "running" /\ call'.pc = "running") =>
          \A f \in FieldType :
             ChainState(call', f) =
                IF chain_of(extractors', f) = <<>> THEN ExhaustedFailed ELSE Trying(0)
    /\ call.pc = "running" =>
          \A f \in FieldType :
             LET s == ChainState(call, f)
                 s2 == ChainState(call', f)
                 n == Len(chain_of(extractors, f))
             IN  IF Invoked /\ InvokedRecord.field = f
                 THEN /\ s.st = "Trying"
                      /\ InvokedRecord.pos = s.i
                      /\ \/ ~FailedOutcome(call'.last) /\ s2 = Succeeded
                         \/ FailedOutcome(call'.last) /\ s.i + 1 < n /\ s2 = Trying(s.i + 1)
                         \/ FailedOutcome(call'.last) /\ s.i + 1 = n /\ s2 = ExhaustedFailed
                 ELSE s2 = s

C7_ChainStateMachine == [][C7_Step]_vars

\* a chain of two went Trying(0), Trying(1), ExhaustedFailed while another
\* one succeeded at its first extractor
C7_Witness ==
    /\ call.pc = "running"
    /\ ChainState(call, NAME) = ExhaustedFailed
    /\ Len(CallsOf(call, NAME)) = 2
    /\ ChainState(call, EMAIL) = Succeeded
    /\ ChainState(call, SKILLS) = Trying(1)

\* C8: construction raises the configuration error for a missing or empty
\* mapping and for a mapping without all of NAME, EMAIL and SKILLS, naming
\* exactly the field types that are missing; a mapping with the three keys is
\* accepted and kept as it is.
C8_Construction ==
    built # "new" =>
        IF arg.isNone \/ DOMAIN arg.m = {}
        THEN /\ built = "failed"
             /\ init_raised.type = "ValueError"
             /\ init_raised.missing = {}
        ELSE IF FieldType \ DOMAIN arg.m # {}
        THEN /\ built = "failed"
             /\ init_raised.type = "ValueError"
             /\ init_raised.missing = FieldType \ DOMAIN arg.m
        ELSE /\ built = "ok"
             /\ init_raised = NoError
             /\ extractors = arg

\* a mapping that has NAME and EMAIL but no SKILLS was refused
C8_Witness ==
    /\ built = "failed"
    /\ DOMAIN arg.m = {NAME, EMAIL}
    /\ init_raised.missing = {SKILLS}

\* a mapping with the three keys was accepted
C8_WitnessAccepted ==
    /\ built = "ok"
    /\ extractors = arg
    /\ DOMAIN extractors.m = FieldType

\* C13: a SkillsExtractor whose strategy answers with a non-empty list
\* returns that list, the same elements in the same order with duplicates
\* kept, and the coordinator whose SKILLS chain succeeds with it returns a
\* ResumeData whose skills is that list.
C13_SkillsUnchanged ==
    \A j \in 1..Len(call.calls) :
        LET r == call.calls[j]
        IN  (/\ r.field = SKILLS
             /\ r.so.k = "return"
             /\ r.so.v.t = "list"
             /\ r.so.v.l # <<>>) =>
                /\ r.got
                /\ r.val = r.so.v
                /\ call.pc = "returned" => call.ret.skills = r.so.v

\* the strategy found SQL, Py, SQL and the ResumeData holds SQL, Py, SQL
C13_Witness ==
    /\ call.pc = "returned"
    /\ \E j \in 1..Len(call.calls) :
          /\ call.calls[j].field = SKILLS
          /\ call.calls[j].so.k = "return"
          /\ Len(call.calls[j].so.v.l) = 3
          /\ call.calls[j].so.v.l[1] = call.calls[j].so.v.l[3]
          /\ call.ret.skills = call.calls[j].so.v

\* C4: two extract calls on the same text whose extractors answer the same
\* except in one field return the same values in the other two fields, and
\* the extractors of those two fields are called in both, the same ones in
\* the same order.
C4_FieldsIndependent ==
    (Ended(call) /\ Ended(callB)) =>
        /\ call.pc = callB.pc
        /\ \A g \in FieldType \ {varied} :
              /\ FieldOf(call.ret, g) = FieldOf(callB.ret, g)
              /\ CallsOf(call, g) = CallsOf(callB, g)
              /\ (call.pc = "returned" /\ chain_of(extractors, g) # <<>>) =>
                    CallsOf(call, g) # <<>>

\* every NAME extractor failed in one run and the first one answered in the
\* other; email and skills came out the same, from their second extractors
C4_Witness ==
    /\ call.pc = "returned" /\ callB.pc = "returned"
    /\ varied = NAME
    /\ call.ret.name = None
    /\ Len(CallsOf(call, NAME)) = 2
    /\ callB.ret.name = V_john
    /\ Len(CallsOf(callB, NAME)) = 1
    /\ call.ret.email = V_john /\ callB.ret.email = V_john
    /\ call.ret.skills = V_python /\ callB.ret.skills = V_python
    /\ Len(CallsOf(call, SKILLS)) = 2 /\ Len(CallsOf(callB, SKILLS)) = 2

\* C9: when the first EMAIL extractor is the one the factory builds for
\* (EMAIL, REGEX) and the text holds a well-formed address, the returned
\* email is the first such address of the text and no later EMAIL extractor
\* is called.
C9_PatternEmailFirst ==
    LET chain == chain_of(extractors, EMAIL)
        found == findall(EMAIL_PATTERN, call.text)
    IN  (/\ call.pc = "returned"
         /\ chain # <<>>
         /\ chain[1].kind = "factory_regex"
         /\ found # <<>>) =>
            /\ call.ret.email = Str(found[1].s)
            /\ Len(CallsOf(call, EMAIL)) = 1

\* minimum input lengths of the field extractors, after trimming
ClaimedMinLength(f) == IF f = NAME THEN 1 ELSE IF f = EMAIL THEN 5 ELSE 2

\* C10: for each of the three field extractors, on input that is long
\* enough, whatever the wrapped strategy raises and also when it returns []
\* or None, extract raises FieldExtractionError (with the strategy's exception
\* as its cause when there is one); no exception of another kind leaves
\* extract.
C10_OnlyFieldExtractionError ==
    fx.pc = "done" =>
        /\ fx.out.k = "raise" => fx.out.exc = "FieldExtractionError"
        /\ (/\ Len(strip(fx.text)) >= ClaimedMinLength(fx.field)
            /\ \/ fx.so.k = "raise"
               \/ fx.so = Return(None)
               \/ fx.so = Return(List(<<>>))) =>
              /\ fx.out.k = "raise"
              /\ fx.out.exc = "FieldExtractionError"
              /\ fx.so.k = "raise" => fx.out.cause = fx.so.exc

\* the same, for NameExtractor and SkillsExtractor only
C10_NameAndSkills == fx.field # EMAIL => C10_OnlyFieldExtractionError

\* ------------------------------------------- properties: field extractors
\* the wrapped strategy answered with a non-empty list
FoundCandidates(c) == c.so.k = "return" /\ c.so.v.t = "list" /\ c.so.v.l # <<>>

\* C11: a field extractor called on a text whose trimmed length is below the
\* field's minimum (NAME 1, EMAIL 5, SKILLS 2) raises FieldExtractionError and
\* does not call its strategy; on a text of the minimum length or more it
\* calls the strategy exactly once, with the trimmed text.
C11_MinLength ==
    fx.pc = "done" =>
        IF Len(strip(fx.text)) < ClaimedMinLength(fx.field)
        THEN /\ fx.out.k = "raise"
             /\ fx.out.exc = "FieldExtractionError"
             /\ fx.strategy_calls = <<>>
        ELSE fx.strategy_calls = <<strip(fx.text)>>

\* the same, for NameExtractor and SkillsExtractor only
C11_NameAndSkills == fx.field # EMAIL => C11_MinLength

\* a text of exactly two characters went through SkillsExtractor's validation
C11_WitnessNameAndSkills ==
    /\ fx.pc = "done"
    /\ fx.field = SKILLS
    /\ fx.text = T_pair
    /\ fx.strategy_calls = <<T_pair>>

\* the strict address format local@domain.tld with a TLD of two letters or
\* more, the whole candidate being the address
StrictFormat(x) == x # <<>> /\ EmailMatchEnd(x, 1) = Len(x)

\* C12: EmailExtractor.extract, on a text of five characters or more for
\* which its strategy finds candidates, calls the strategy with the trimmed
\* text and decides on the first candidate alone: it returns that candidate
\* unchanged when it has the strict format and raises FieldExtractionError
\* when it has not.
C12_EmailFirstCandidate ==
    (/\ fx.pc = "done"
     /\ fx.field = EMAIL
     /\ Len(strip(fx.text)) >= 5
     /\ FoundCandidates(fx)
     /\ fx.so.v.l[1].t = "str") =>
        /\ fx.strategy_calls = <<strip(fx.text)>>
        /\ IF StrictFormat(fx.so.v.l[1].s)
           THEN fx.out = Return(Str(fx.so.v.l[1].s))
           ELSE fx.out.k = "raise" /\ fx.out.exc = "FieldExtractionError"

\* C14: NameExtractor.extract, when its strategy answers with a non-empty
\* list, returns the first element of that list as it is, whatever follows
\* it; a None placeholder in first place comes back as None and nothing is
\* raised.
C14_NameFirstCandidate ==
    (/\ fx.pc = "done"
     /\ fx.field = NAME
     /\ Len(strip(fx.text)) >= 1
     /\ FoundCandidates(fx)) =>
        fx.out = Return(IF fx.so.v.l[1].t = "none"
                        THEN None
                        ELSE Str(fx.so.v.l[1].s))

\* the strategy answered [None, "Py"] and extract returned None
C14_Witness ==
    /\ fx.pc = "done"
    /\ fx.field = NAME
    /\ fx.text = T_one
    /\ fx.so = Return(List(<<NoneItem, X_py>>))
    /\ fx.out = Return(None)

\* ------------------------------------------------- properties: the factory
\* the pairs the design supports
ClaimedSupported(f) == IF f = EMAIL THEN {REGEX, NER, LLM} ELSE {NER, LLM}

\* the spec the design fixes for field f
SpecAsClaimed(fs, f) ==
    /\ fs.field_type = f
    /\ f = NAME => fs.entity_label = "person" /\ fs.top_k = TopKNone /\ fs.regex_patterns = <<>>
    /\ f = EMAIL => fs.entity_label = "email" /\ fs.top_k = TopKNone /\ fs.regex_patterns # <<>>
    /\ f = SKILLS => fs.entity_label = "skill" /\ fs.top_k = TopK(0) /\ fs.regex_patterns = <<>>

\* C15: create_extractor for a pair outside SUPPORTED_STRATEGIES (NAME with
\* REGEX, SKILLS with REGEX) raises InvalidStrategyConfigError and has by then
\* constructed no spec, no strategy and no extractor and loaded no model or
\* client.
C15_UnsupportedRejected ==
    (fac.pc # "idle" /\ fac.strategy_type \notin ClaimedSupported(fac.field)) =>
        /\ fac.pc = "failed"
        /\ fac.made.err.type = "InvalidStrategyConfigError"
        /\ fac.made.made = <<>>
        /\ fac.made.ctor = ""
        /\ fac.made.loads = <<>>
        /\ fac.made.extractor = NoExtractor

C15_Witness ==
    /\ fac.pc = "failed"
    /\ fac.field = SKILLS
    /\ fac.strategy_type = REGEX
    /\ fac.env = Env("ok", TRUE, "ok")
    /\ fac.made.made = <<>>

\* the model or client the strategy of class st needs could be loaded
Loadable(st, env) ==
    /\ st = NER => env.gliner = "ok"
    /\ st = LLM => env.api_key /\ env.genai = "ok"

C17_EntityContract ==
    (/\ fac.pc = "used"
     /\ fac.strategy_type = NER
     /\ Len(strip(fac.text)) >= 5
     /\ fac.answer.k = "return"
     /\ fac.answer.v.l # <<>>) =>
        /\ fac.made.extractor.strategy.has_spec
        /\ fac.made.extractor.strategy.spec = fac.made.spec
        /\ fac.field = NAME => fac.out = Return(Str(fac.answer.v.l[1].s))
        /\ (fac.field = EMAIL /\ StrictFormat(fac.answer.v.l[1].s)) =>
              fac.out = Return(Str(fac.answer.v.l[1].s))
        /\ fac.field = SKILLS => fac.out = Return(fac.answer.v)

\* the same for the extractors built for (field, LLM), the client answering
\* with a JSON array: for SKILLS, whose limit is 0, the items come back
C17_GenerativeSkills ==
    (/\ fac.pc = "used"
     /\ fac.strategy_type = LLM
     /\ fac.field = SKILLS
     /\ fac.text = T_contact
     /\ fac.answer = Return(Str(Resp_array))) =>
        fac.out = Return(List(<<Item(<<"P", "y">>), Item(<<"G", "o">>), Item(<<"C">>)>>))

\* ---------------------------------------------- properties: the strategies
\* the patterns of the spec that match something in the text
Matching(spec, text) ==
    {i \in 1..Len(spec.regex_patterns) : findall(spec.regex_patterns[i], text) # <<>>}

FirstMatching(spec, text) ==
    CHOOSE i \in Matching(spec, text) : \A j \in Matching(spec, text) : i <= j

\* q is the beginning of r
IsPrefix(q, r) == Len(q) <= Len(r) /\ \A k \in 1..Len(q) : q[k] = r[k]

\* C18: RegexExtractionStrategy.extract on a text that is not blank
\* evaluates its patterns in the order of the spec up to and including the
\* first one that matches something, returns matches of that pattern in text
\* order and evaluates no pattern after it; it raises NoMatchFoundError when,
\* and only when, no pattern matches.
C18_FirstMatchingPattern ==
    (sx.pc = "done" /\ sx.kind = REGEX /\ ~IsBlank(sx.text)) =>
        IF Matching(sx.spec, sx.text) = {}
        THEN /\ sx.out = Raise("NoMatchFoundError")
             /\ sx.consulted = [i \in 1..Len(sx.spec.regex_patterns) |-> i]
        ELSE LET p == FirstMatching(sx.spec, sx.text)
                 found == findall(sx.spec.regex_patterns[p], sx.text)
             IN  /\ sx.out.k = "return"
                 /\ sx.consulted = [i \in 1..p |-> i]
                 /\ IsPrefix(sx.out.v.l,
                             IF found[1].t = "tuple" THEN flatten(found) ELSE found)

\* [\d+, [a-z]+] on "Py go C": the first pattern matches nothing, the
\* matches of the second are returned
C18_Witness ==
    /\ sx.pc = "done"
    /\ sx.kind = REGEX
    /\ sx.spec.regex_patterns = <<DIGITS_PATTERN, LETTERS_PATTERN>>
    /\ sx.text = S_words
    /\ sx.consulted = <<1, 2>>
    /\ sx.out = Return(List(<<Item(<<"P", "y">>), Item(<<"g", "o">>), Item(<<"C">>)>>))

\* [[a-z]+, \d+] on "ab 12 c 7 d": both match, the first one's are returned
C18_WitnessFirstOnly ==
    /\ sx.pc = "done"
    /\ sx.spec.regex_patterns = <<LETTERS_PATTERN, DIGITS_PATTERN>>
    /\ sx.text = S_mixed
    /\ sx.consulted = <<1>>
    /\ sx.out.k = "return"
    /\ sx.out.v.l[1] = Item(<<"a", "b">>)

\* the candidates a strategy call found, <<>> when it found none: the matches
\* of the first matching pattern, groups flattened; the entity texts; the
\* cleaned items of the array in the response, or the bare response
Candidates(c) ==
    CASE c.kind = REGEX ->
            IF IsBlank(c.text) \/ Matching(c.spec, c.text) = {} THEN <<>>
            ELSE flattened(findall(c.spec.regex_patterns[FirstMatching(c.spec, c.text)], c.text))
      [] c.kind = NER ->
            IF \/ IsBlank(c.text)
               \/ entity_labels(NERStrategy(c.labels), c.spec) = <<>>
               \/ c.answer.k # "return"
            THEN <<>> ELSE c.answer.v.l
      [] c.kind = LLM ->
            IF IsBlank(c.text) \/ c.answer.k # "return" \/ c.answer.v.t # "str" THEN <<>>
            ELSE LET rt == strip(c.answer.v.s)
                 IN  IF c.spec.top_k.isNone
                     THEN (IF rt = <<>> \/ upper(rt) = NOT_FOUND THEN <<>> ELSE <<Item(rt)>>)
                     ELSE IF Contains(rt, "[") /\ Contains(rt, "]")
                     THEN clean(json_loads(SubSeq(rt, index(rt, "["), rindex(rt, "]"))).items)
                     ELSE <<>>

StrategyErrors ==
    {"NoMatchFoundError", "InvalidStrategyConfigError", "StrategyExtractionError",
     "ExternalServiceError"}

\* C20: a strategy call either returns a list of one or more candidates or
\* raises one of the typed errors; it never returns an empty list, also when
\* the groups of a pattern's matches are all empty.
C20_NeverEmpty ==
    sx.pc = "done" =>
        /\ sx.out.k = "return" => sx.out.v.t = "list" /\ sx.out.v.l # <<>>
        /\ sx.out.k = "raise" => sx.out.exc \in StrategyErrors

\* the same for the entity and the generative strategy only
C20_EntityAndGenerative == sx.kind # REGEX => C20_NeverEmpty

C21_WitnessRegex ==
    /\ sx.pc = "done" /\ sx.kind = REGEX /\ sx.text = T_blank
    /\ sx.spec.regex_patterns # <<>>
    /\ sx.out = Raise("NoMatchFoundError")

C21_WitnessEntity ==
    /\ sx.pc = "done" /\ sx.kind = NER /\ sx.text = T_blank
    /\ sx.spec.entity_label = "skill"
    /\ sx.answer.k = "return" /\ sx.answer.v.l # <<>>
    /\ sx.out = Raise("NoMatchFoundError")

Responded ==
    /\ sx.pc = "done" /\ sx.kind = LLM /\ strip(sx.text) # <<>>
    /\ sx.answer.k = "return" /\ sx.answer.v.t = "str"

\* the arrays in the responses that hold nothing, or nothing but falsy items
EmptyArrays == {Resp_none, Resp_falsy}

\* C22, as claimed: with top_k set (0 included), a response whose array is
\* empty, or empty after its items are filtered, makes
\* LLMExtractionStrategy.extract raise ExternalServiceError.
C22_EmptyArrayIsServiceFailure ==
    (Responded /\ ~sx.spec.top_k.isNone /\ sx.answer.v.s \in EmptyArrays) =>
        sx.out.k = "raise" /\ sx.out.exc = "ExternalServiceError"

\* C22, as the code has it: with top_k set (0 included), a response whose
\* array is empty, or empty after its items are filtered, makes
\* LLMExtractionStrategy.extract raise NoMatchFoundError.
C22_EmptyArrayIsNoMatch ==
    (Responded /\ ~sx.spec.top_k.isNone /\ sx.answer.v.s \in EmptyArrays) =>
        sx.out = Raise("NoMatchFoundError")

\* top_k is 0 and the response is  ["", 0, null]
C22_Witness ==
    /\ Responded
    /\ sx.spec.top_k = TopK(0)
    /\ sx.answer.v.s = Resp_falsy
    /\ sx.out = Raise("NoMatchFoundError")

\* responses without a pair of brackets, responses whose text between the
\* first "[" and the last "]" is no JSON, responses that are a JSON value
\* other than an array
Undelimited == {Resp_bare, Resp_sentinel, Resp_exact, Resp_object, Resp_open}
InvalidInside == {Resp_two}
NonArrayValues == {Resp_object, Resp_nested}

\* ExternalServiceError with its original_exception set
ServiceFailure(o) == o.k = "raise" /\ o.exc = "ExternalServiceError" /\ o.cause # ""

\* C23: with top_k set (0 included), LLMExtractionStrategy.extract raises
\* ExternalServiceError carrying its cause when the response has no "[" ...
\* "]", when the text between them is not valid JSON and when the response
\* is a JSON value that is no array; when the call of the client raises, it
\* raises ExternalServiceError whatever top_k is.
C23_ParseAndCallFailures ==
    /\ (Responded /\ ~sx.spec.top_k.isNone
            /\ sx.answer.v.s \in Undelimited \cup InvalidInside \cup NonArrayValues) =>
          ServiceFailure(sx.out)
    /\ (sx.pc = "done" /\ sx.kind = LLM /\ strip(sx.text) # <<>> /\ sx.answer.k = "raise") =>
          ServiceFailure(sx.out)

\* the same without the objects that hold an array
C23_DelimitersAndCalls ==
    /\ (Responded /\ ~sx.spec.top_k.isNone
            /\ sx.answer.v.s \in Undelimited \cup InvalidInside) =>
          ServiceFailure(sx.out)
    /\ (sx.pc = "done" /\ sx.kind = LLM /\ strip(sx.text) # <<>> /\ sx.answer.k = "raise") =>
          ServiceFailure(sx.out)

\* the items of the arrays that stand inside prose:  H: ["Py", "Go","C"] ok
\* and  x ["a]", "c"] y
ArrayInside(r) ==
    IF r = Resp_array THEN <<Item(<<"P", "y">>), Item(<<"G", "o">>), Item(<<"C">>)>>
    ELSE <<Item(<<"a", "]">>), Item(<<"c">>)>>

\* C24: with top_k set, the text from the first "[" to the last "]" of the
\* response is parsed as the array and what stands before and after it is
\* ignored: top_k 0 gives all items of the array, top_k N > 0 its first N.
C24_ArrayInsideProse ==
    (Responded /\ ~sx.spec.top_k.isNone /\ sx.answer.v.s \in {Resp_array, Resp_inner}) =>
        LET a == ArrayInside(sx.answer.v.s)
            n == sx.spec.top_k.n
        IN  sx.out = Return(List(IF n = 0 \/ n >= Len(a) THEN a ELSE SubSeq(a, 1, n)))

\* top_k 0 and prose around an array whose first item holds a "]"
C24_Witness ==
    /\ Responded
    /\ sx.spec.top_k = TopK(0)
    /\ sx.answer.v.s = Resp_inner
    /\ sx.out = Return(List(<<Item(<<"a", "]">>), Item(<<"c">>)>>))

\* top_k 2 and three items in the array: the first two
C24_WitnessLimit ==
    /\ Responded
    /\ sx.spec.top_k = TopK(2)
    /\ sx.answer.v.s = Resp_array
    /\ sx.out = Return(List(<<Item(<<"P", "y">>), Item(<<"G", "o">>)>>))

\* a and b are the same but for the case of their letters
SameButCase(a, b) ==
    /\ Len(a) = Len(b)
    /\ \A i \in 1..Len(a) :
          \/ a[i] = b[i]
          \/ \E k \in 1..26 : {a[i], b[i]} = {LowerSeq[k], UpperSeq[k]}

\* C25, as claimed: with top_k None, LLMExtractionStrategy.extract returns a
\* list of one element, the response text without the whitespace around it,
\* except that the response NOT_FOUND and an empty response make it raise
\* NoMatchFoundError.
C25_BareValueOrSentinel ==
    (Responded /\ sx.spec.top_k.isNone) =>
        LET rt == strip(sx.answer.v.s)
        IN  IF rt = NOT_FOUND \/ rt = <<>>
            THEN sx.out = Raise("NoMatchFoundError")
            ELSE sx.out = Return(List(<<Item(rt)>>))

\* C25, as the code has it: the same, the response being taken for the
\* sentinel whatever the case of its letters is (not_found, Not_Found).
C25_BareValueOrSentinelAnyCase ==
    (Responded /\ sx.spec.top_k.isNone) =>
        LET rt == strip(sx.answer.v.s)
        IN  IF SameButCase(rt, NOT_FOUND) \/ rt = <<>>
            THEN sx.out = Raise("NoMatchFoundError")
            ELSE sx.out = Return(List(<<Item(rt)>>))

\* the response " j@e.com\n" came back as ["j@e.com"]
C25_Witness ==
    /\ Responded
    /\ sx.spec.top_k.isNone
    /\ sx.answer.v.s = Resp_bare
    /\ sx.out = Return(List(<<Item(<<"j", "@", "e", ".", "c", "o", "m">>)>>))

\* the response not_found, in lower case
C25_WitnessSentinel ==
    /\ Responded
    /\ sx.spec.top_k.isNone
    /\ sx.answer.v.s = Resp_sentinel
    /\ sx.out = Raise("NoMatchFoundError")

C26_WitnessNoLabel ==
    /\ sx.pc = "done" /\ sx.kind = NER /\ sx.text = T_two
    /\ sx.spec.entity_label = "" /\ sx.labels = <<>>
    /\ sx.answer.k = "return" /\ sx.answer.v.l # <<>>
    /\ sx.out = Raise("InvalidStrategyConfigError")

\* -------------------------------------------------- properties: the facade
\* the extension of a file name, in lower case
ExtensionOf(nm) ==
    CASE nm \in {N_pdf, N_upper} -> EXT_PDF
      [] nm = N_docx -> EXT_DOCX
      [] nm = N_doc -> EXT_DOC
      [] nm = N_txt -> <<".", "t", "x", "t">>
      [] nm = N_bak -> <<".", "b", "a", "k">>
      [] OTHER -> <<>>

\* the path passes the three checks
Accepted(file) ==
    file.exists /\ file.is_file /\ ExtensionOf(file.name) \in {EXT_PDF, EXT_DOCX, EXT_DOC}

\* C27: parse_resume checks its path in this order: nothing there raises
\* FileNotFoundError; something that is no file raises ValueError; a file
\* whose extension, letters lowered, is none of .pdf, .docx, .doc raises
\* UnsupportedFileFormatError; in each case no parser and no coordinator is
\* called.
C27_PathChecks ==
    (fw.pc = "done" /\ ~Accepted(fw.file)) =>
        /\ fw.out = Raise(IF ~fw.file.exists THEN "FileNotFoundError"
                          ELSE IF ~fw.file.is_file THEN "ValueError"
                          ELSE "UnsupportedFileFormatError")
        /\ fw.parser_calls = <<>>
        /\ fw.extractor_calls = <<>>

\* nothing is at r.txt: FileNotFoundError, although the extension is
\* unsupported too
C27_Witness ==
    /\ fw.pc = "done"
    /\ fw.file = File(N_txt, FALSE, FALSE)
    /\ fw.pa.k = "return"
    /\ fw.out = Raise("FileNotFoundError")

\* a directory r.pdf.bak
C27_WitnessNotFile ==
    /\ fw.pc = "done"
    /\ fw.file = File(N_bak, TRUE, FALSE)
    /\ fw.out = Raise("ValueError")

\* a file r.txt
C27_WitnessExtension ==
    /\ fw.pc = "done"
    /\ fw.file = File(N_txt, TRUE, TRUE)
    /\ fw.out = Raise("UnsupportedFileFormatError")

\* the parser that stands for an extension
ParserFor(ext) == IF ext = EXT_PDF THEN "pdf_parser" ELSE "word_parser"

\* C28: once the path has passed the checks, the parser that stands for the
\* extension is called exactly once, with the path; an exception it raises
\* comes out as FileParsingError carrying it, the coordinator not being
\* called; when it returns a text the coordinator is called exactly once,
\* with that text, and what the coordinator raises or returns is what
\* parse_resume raises or returns.
C28_ParseThenExtract ==
    (fw.pc = "done" /\ Accepted(fw.file)) =>
        /\ fw.parser_calls = <<[parser |-> ParserFor(ExtensionOf(fw.file.name)),
                                file_path |-> fw.file.name]>>
        /\ fw.pa.k = "raise" =>
              /\ fw.out = RaiseFrom("FileParsingError", fw.pa.exc)
              /\ fw.extractor_calls = <<>>
        /\ (fw.pa.k = "return" /\ fw.pa.v.t = "str") =>
              /\ fw.extractor_calls = <<fw.pa.v.s>>
              /\ fw.out = fw.ca

\* R.PDF was parsed by the PDF parser and the coordinator's
\* FieldExtractionError came out
C28_Witness ==
    /\ fw.pc = "done"
    /\ fw.file = File(N_upper, TRUE, TRUE)
    /\ fw.parser_calls = <<[parser |-> "pdf_parser", file_path |-> N_upper]>>
    /\ fw.extractor_calls = <<T_two>>
    /\ fw.out = Raise("FieldExtractionError")

\* r.doc: the Word parser raised
C28_WitnessParserRaised ==
    /\ fw.pc = "done"
    /\ fw.file = File(N_doc, TRUE, TRUE)
    /\ fw.parser_calls = <<[parser |-> "word_parser", file_path |-> N_doc]>>
    /\ fw.out = RaiseFrom("FileParsingError", "Exception")
    /\ fw.extractor_calls = <<>>

\* ------------------------------------------------- properties: the record
\* the value d holds under key k (None when it has no such key)
ValueAt(d, k) ==
    IF \E i \in 1..Len(d) : d[i].key = k
    THEN d[CHOOSE i \in 1..Len(d) : d[i].key = k].value
    ELSE None

\* two dicts are equal: the same keys with the same values, in any order
SameDict(d, e) ==
    /\ {d[i].key : i \in 1..Len(d)} = {e[i].key : i \in 1..Len(e)}
    /\ Len(d) = Len(e)
    /\ \A i \in 1..Len(d) : ValueAt(e, d[i].key) = d[i].value

\* C29: to_dict() gives a mapping with exactly the keys name, email and
\* skills, in that order, holding the values of the record; json.loads of
\* what to_json(indent) gives, for any indent, is a mapping equal to it.
C29_DictAndJsonRoundTrip ==
    /\ rec.pc \in {"dict", "json"} =>
          /\ [i \in 1..Len(rec.dict) |-> rec.dict[i].key]
                = << <<"n", "a", "m", "e">>, <<"e", "m", "a", "i", "l">>,
                     <<"s", "k", "i", "l", "l", "s">> >>
          /\ rec.dict[1].value = rec.data.name
          /\ rec.dict[2].value = rec.data.email
          /\ rec.dict[3].value = rec.data.skills
    /\ rec.pc = "json" =>
          /\ rec.loaded.ok
          /\ SameDict(rec.loaded.v, rec.dict)

\* a name with a quote in it and skills with quotes, a comma and a bracket
\* in them went through to_json(0) and json.loads
C29_Witness ==
    /\ rec.pc = "json"
    /\ rec.data.name = Str(V_quote)
    /\ Len(rec.data.skills.l) = 3
    /\ rec.indent = Indent(0)
    /\ rec.loaded.ok
    /\ rec.loaded.v[1].value = Str(V_quote)

\* ------------------------------------------- properties: the order of calls
Rank(f) == CHOOSE i \in 1..3 : FieldOrder[i] = f

\* the calls of the log that have started and not ended
InProgress(log) ==
    {i \in 1..Len(log) :
        /\ log[i].ev = "call"
        /\ ~\E j \in (i + 1)..Len(log) :
              log[j].ev = "end" /\ log[j].field = log[i].field /\ log[j].pos = log[i].pos}

\* the chain of field f has come to its end: a value, or the default
Terminal(c, f) == c.done[f] \in {"result", "default"}

\* a step of extract, seen from the calls of extractors
C30_Step ==
    /\ Cardinality(InProgress(events')) <= 1
    /\ (Len(events') = Len(events) + 1 /\ events'[Len(events')].ev = "call") =>
          LET e == events'[Len(events')]
          IN  /\ InProgress(events) = {}
              /\ \A g \in FieldType : Rank(g) < Rank(e.field) => Terminal(call, g)
              /\ \A g \in FieldType : Rank(g) >= Rank(e.field) => ~Terminal(call, g)
              /\ e.pos = 0 => \A i \in 1..Len(events) : events[i].field # e.field
              /\ e.pos > 0 =>
                    /\ events # <<>>
                    /\ events[Len(events)]
                          = [ev |-> "end", field |-> e.field, pos |-> e.pos - 1, ok |-> FALSE]

\* C30: extract resolves NAME, then EMAIL, then SKILLS: an extractor of a
\* field is called only when the chains of the fields before it have come to
\* their end and its own has not; extractor i+1 of a chain is called only
\* right after extractor i raised or returned nothing meaningful; at any
\* time at most one extractor call is in progress.
C30_SequentialResolution == [][C30_Step]_vars

\* the second extractor of EMAIL is running: NAME's chain is over and
\* EMAIL's first extractor has failed
C30_Witness ==
    /\ call.pc = "calling"
    /\ FieldOrder[call.cur] = EMAIL
    /\ call.idx = 1
    /\ Terminal(call, NAME)
    /\ Len(events) >= 5
    /\ events[Len(events)] = [ev |-> "call", field |-> EMAIL, pos |-> 1, ok |-> FALSE]
    /\ Cardinality(InProgress(events)) = 1

\* extract has returned after calls for all three fields
C30_WitnessAllFields ==
    /\ call.pc = "returned"
    /\ {events[i].field : i \in 1..Len(events)} = FieldType
    /\ InProgress(events) = {}

\* ---------------------------------------- properties: calls of one extract
\* every chain of the coordinator has an extractor and the first call made
\* to each of them returned a meaningful value
AllFirstSucceed ==
    \A f \in FieldType :
       /\ chain_of(extractors, f) # <<>>
       /\ CallsOf(call, f) # <<>>
       /\ CallsOf(call, f)[1].got

\* C31: during one extract call no extractor is called twice, every
\* extractor that is called is given the text that extract was given,
\* character for character, and when every chain succeeds at its first
\* extractor exactly three calls have been made when extract returns.
C31_OnceWithGivenText ==
    call.pc # "idle" =>
       /\ \A i, j \in 1..Len(call.calls) :
             (/\ call.calls[i].field = call.calls[j].field
              /\ call.calls[i].pos = call.calls[j].pos) => i = j
       /\ \A i \in 1..Len(call.calls) : call.calls[i].text = call.text
       /\ (call.pc = "returned" /\ AllFirstSucceed) => Len(call.calls) = 3

\* a text that starts with a blank went to three first extractors, each with
\* a later extractor behind it that was not called
C31_Witness ==
    /\ call.pc = "returned"
    /\ call.text = T_two
    /\ strip(call.text) # call.text
    /\ AllFirstSucceed
    /\ Len(call.calls) = 3
    /\ \A f \in FieldType : Len(chain_of(extractors, f)) >= 2

\* ------------------------------------------------ properties: termination
\* the calls of extractors of field f entered so far in this extract
EnteredFor(f) == SelectSeq(events, LAMBDA x : x.ev = "call" /\ x.field = f)

\* extract is under way
Extracting == call.pc \in {"running", "calling"}

\* extract has returned a ResumeData and every chain is in a terminal state
ReturnedResume ==
    /\ call.pc = "returned"
    /\ call.ret.present
    /\ \A f \in FieldType : ChainState(call, f) \in {Succeeded, ExhaustedFailed}

\* C32: when every extractor call comes back, extract on a text that is not
\* blank terminates: no chain is asked more often than it has extractors,
\* every chain reaches Succeeded or ExhaustedFailed, and a ResumeData is
\* returned.
C32_Terminates ==
    /\ [](\A f \in FieldType : Len(EnteredFor(f)) <= Len(chain_of(extractors, f)))
    /\ \A f \in FieldType :
          Extracting ~> (ChainState(call, f) \in {Succeeded, ExhaustedFailed})
    /\ Extracting ~> ReturnedResume

\* extract returned after every extractor of three chains of two had been
\* called and had failed
C32_Witness ==
    /\ ReturnedResume
    /\ \A f \in FieldType :
          /\ Len(chain_of(extractors, f)) = 2
          /\ Len(EnteredFor(f)) = 2
          /\ ChainState(call, f) = ExhaustedFailed

\* ------------------------------------------------ properties: empty chains
\* the mapping has the three keys and at least one of its lists is empty
HasEmptyChain(a) ==
    /\ ~a.isNone
    /\ FieldType \subseteq DOMAIN a.m
    /\ \E f \in FieldType : a.m[f] = <<>>

\* C33: a mapping with the three keys is accepted although a list in it is
\* empty; extract resolves a field with an empty chain to its default (None,
\* [] for SKILLS) as soon as its turn comes, calls no extractor for it and
\* raises nothing, and the fields that have extractors are resolved by
\* calling them.
C33_EmptyChainDefault ==
    /\ (built # "new" /\ HasEmptyChain(arg)) =>
          (built = "ok" /\ init_raised = NoError /\ extractors = arg)
    /\ (built = "ok" /\ call.pc \in {"running", "returned"}) =>
          \A f \in FieldType :
             chain_of(extractors, f) = <<>> =>
                /\ CallsOf(call, f) = <<>>
                /\ call.error = NoError
                /\ call.cur > Rank(f) =>
                      /\ call.done[f] = "default"
                      /\ call.result[f] = IF f = SKILLS THEN List(<<>>) ELSE None
                /\ call.pc = "returned" =>
                      /\ FieldOf(call.ret, f) = IF f = SKILLS THEN List(<<>>) ELSE None
                      /\ \A g \in FieldType :
                            chain_of(extractors, g) # <<>> =>
                               /\ CallsOf(call, g) # <<>>
                               /\ CallsOf(call, g)[Len(CallsOf(call, g))].got =>
                                     FieldOf(call.ret, g) =
                                        CallsOf(call, g)[Len(CallsOf(call, g))].val

\* NAME and SKILLS have no extractor, EMAIL was found by its second one
C33_Witness ==
    /\ call.pc = "returned"
    /\ chain_of(extractors, NAME) = <<>>
    /\ chain_of(extractors, SKILLS) = <<>>
    /\ Len(CallsOf(call, EMAIL)) = 2
    /\ call.ret.name = None
    /\ call.ret.email # None
    /\ call.ret.skills = List(<<>>)

\* ------------------------------------------------- properties: frame effect
\* every extractor that was called in both calls of extract gave the same
\* outcome in both
SameOutcomes(a, b) ==
    \A i \in 1..Len(a.calls), j \in 1..Len(b.calls) :
       (a.calls[i].field = b.calls[j].field /\ a.calls[i].pos = b.calls[j].pos) =>
          (a.calls[i].got = b.calls[j].got /\ a.calls[i].val = b.calls[j].val)

\* a step of a constructed coordinator leaves its mapping as it is
C34_Step == built = "ok" => (built' = "ok" /\ extractors' = extractors /\ arg' = arg)

\* an earlier and a later extract on the same text with the same outcomes
\* end in the same way
C34_Repeat ==
    (callB.pc \in {"returned", "raised"} /\ call.pc \in {"returned", "raised"}
       /\ call.text = callB.text /\ SameOutcomes(call, callB)) =>
          /\ call.pc = callB.pc
          /\ call.ret = callB.ret
          /\ call.error = callB.error

\* C34: extract does not change the coordinator: the mapping and the order
\* of every chain are the same after every step of every extract call
\* (successful, degraded, rejected for a blank text), and an extract that
\* repeats an earlier one on the same text with the same extractor outcomes
\* returns an equal ResumeData, whatever calls were made in between.
C34_FrameAndRepeat == [][C34_Step]_vars /\ []C34_Repeat

\* an extract found the name with the second extractor; after a rejected
\* call and other calls in between, a later extract with the same outcomes
\* returned an equal record
C34_Witness ==
    /\ callB.pc = "returned" /\ call.pc = "returned"
    /\ call.text = callB.text
    /\ extractors = arg
    /\ Len(CallsOf(call, NAME)) = 2 /\ CallsOf(call, NAME)[2].got
    /\ call.calls = callB.calls
    /\ call.ret = callB.ret
    /\ call.ret.name # None

\* an extract on a blank text came between two extracts and was rejected
C34_WitnessRejected ==
    /\ callB.pc = "raised"
    /\ call.pc = "returned"
    /\ extractors = arg
    /\ call.calls # <<>>

\* ------------------------------------------- properties: returned records
\* v is the meaningful value that an extractor of f's own chain returned in
\* this extract
FromOwnChain(f, v) ==
    \E j \in 1..Len(call.calls) :
       LET r == call.calls[j]
       IN  /\ r.field = f
           /\ r.pos < Len(chain_of(extractors, f))
           /\ chain_of(extractors, f)[r.pos + 1].field = f
           /\ r.got
           /\ r.val = v

\* C35: in every ResumeData that extract returns, name and email are None
\* or a meaningful value (not None, not "", not []) that an extractor of
\* their own chain returned, skills is [] or such a value of the SKILLS
\* chain and never None, and no field holds a value that only an extractor
\* of another field's chain returned.
C35_ReturnedFields ==
    call.pc = "returned" =>
       /\ \A f \in {NAME, EMAIL} :
             \/ FieldOf(call.ret, f) = None
             \/ /\ ~NonMeaningful(FieldOf(call.ret, f))
                /\ FromOwnChain(f, FieldOf(call.ret, f))
       /\ \/ call.ret.skills = List(<<>>)
          \/ /\ ~NonMeaningful(call.ret.skills)
             /\ FromOwnChain(SKILLS, call.ret.skills)
       /\ call.ret.skills # None

\* the name came from the second extractor of the NAME chain; the
\* extractors of the other two chains were called and failed, and email and
\* skills were left at their defaults
C35_Witness ==
    /\ call.pc = "returned"
    /\ Len(CallsOf(call, NAME)) = 2
    /\ FromOwnChain(NAME, call.ret.name)
    /\ call.ret.email = None
    /\ CallsOf(call, EMAIL) # <<>>
    /\ call.ret.skills = List(<<>>)
    /\ CallsOf(call, SKILLS) # <<>>

\* ------------------------------------- properties: construction of the facade
\* whether the factory can build an extractor of strategy st for field f in
\* the surroundings env: the pairing is supported (REGEX for EMAIL only, the
\* one field with patterns), the entity model loads, the client has its key
\* and loads
Constructible(f, st, env) ==
    /\ st = REGEX => f = EMAIL
    /\ st = NER => env.gliner = "ok"
    /\ st = LLM => (env.api_key /\ env.genai = "ok")

\* the strategies configured for f in the configuration the facade was given
Configured(f) ==
    IF facade.config.isNone THEN DEFAULT_EXTRACTION_CONFIG.strategy_preferences[f]
    ELSE IF f \in DOMAIN facade.config.strategy_preferences
    THEN facade.config.strategy_preferences[f]
    ELSE <<>>

\* the configured strategies of f that can be built, in configured order
ExpectedKinds(f) ==
    SelectSeq(Configured(f), LAMBDA st : Constructible(f, st, facade.env))

\* the places, in NAME, EMAIL, SKILLS, of the fields left without extractor
Unserved == {i \in 1..3 : ExpectedKinds(FieldOrder[i]) = <<>>}
FirstUnserved == CHOOSE i \in Unserved : \A j \in Unserved : i <= j

\* the calls of the factory made for field f
CreatedFor(f) == SelectSeq(facade.made.created, LAMBDA x : x.field = f)

\* C36: the facade calls the factory for each field's configured strategies
\* in configured order; a strategy that cannot be built is skipped and the
\* chain holds the extractors that were built, in the order of the
\* configuration; construction fails with RuntimeError for the first field
\* left without extractor, a field absent from the configuration included.
C36_ChainsFromConfig ==
    facade.pc # "new" =>
       /\ \A i \in 1..3 :
             LET f == FieldOrder[i]
                 cr == CreatedFor(f)
             IN  IF Unserved # {} /\ i > FirstUnserved THEN cr = <<>>
                 ELSE /\ Len(cr) = Len(Configured(f))
                      /\ \A j \in 1..Len(cr) :
                            /\ cr[j].strategy_type = Configured(f)[j]
                            /\ cr[j].ok = Constructible(f, Configured(f)[j], facade.env)
       /\ \A j, k \in 1..Len(facade.made.created) :
             j < k => Rank(facade.made.created[j].field)
                         <= Rank(facade.made.created[k].field)
       /\ IF Unserved = {}
          THEN /\ facade.pc = "ready"
               /\ facade.made.err = NoError
               /\ DOMAIN facade.made.extractors.m = FieldType
               /\ \A f \in FieldType :
                     LET chain == facade.made.extractors.m[f]
                     IN  /\ Len(chain) = Len(ExpectedKinds(f))
                         /\ \A j \in 1..Len(chain) :
                               /\ chain[j].field = f
                               /\ chain[j].cls = ExtractorClass(f)
                               /\ chain[j].strategy.kind = ExpectedKinds(f)[j]
          ELSE /\ facade.pc = "failed"
               /\ facade.made.err.type = "RuntimeError"
               /\ facade.made.err.missing = {FieldOrder[FirstUnserved]}
               /\ facade.made.extractors = NoneMapping

\* the entity model does not load: of EMAIL's LLM, NER, REGEX the chain
\* holds the LLM and the REGEX extractor, in that order
C36_Witness ==
    /\ facade.pc = "ready"
    /\ facade.env.gliner = "fails"
    /\ ~facade.config.isNone
    /\ Configured(EMAIL) = <<LLM, NER, REGEX>>
    /\ Len(facade.made.extractors.m[EMAIL]) = 2
    /\ facade.made.extractors.m[EMAIL][1].strategy.kind = LLM
    /\ facade.made.extractors.m[EMAIL][2].strategy.kind = REGEX

\* everything loads, but SKILLS is absent from the configuration
C36_WitnessAbsent ==
    /\ facade.pc = "failed"
    /\ facade.env = Env("ok", TRUE, "ok")
    /\ ~facade.config.isNone
    /\ DOMAIN facade.config.strategy_preferences = {NAME, EMAIL}
    /\ facade.made.err.missing = {SKILLS}
    /\ Len(CreatedFor(EMAIL)) = 3

\* NAME is configured with REGEX alone, which the factory does not support
C36_WitnessUnsupported ==
    /\ facade.pc = "failed"
    /\ facade.env = Env("ok", TRUE, "ok")
    /\ Configured(NAME) = <<REGEX>>
    /\ facade.made.err.missing = {NAME}
    /\ facade.made.created = <<[field |-> NAME, strategy_type |-> REGEX, ok |-> FALSE]>>

\* --------------------------------- properties: items of a generative result
\* the items of the array that _parse_response parses out of the response
ParsedItems ==
    LET rt == strip(sx.answer.v.s)
    IN  json_loads(SubSeq(rt, index(rt, "["), rindex(rt, "]"))).items

\* the string items of that array that hold more than blanks, in order
StringItems ==
    SelectSeq(ParsedItems, LAMBDA item : item.t = "str" /\ strip(item.s) # <<>>)

\* C37, as claimed: with top_k set, every element of a list that extract
\* returns is a non-empty string item of the parsed array (empty strings,
\* null items and whitespace-only items never appear), and a cap of N > 0
\* is applied after this filtering.
C37_OnlyNonEmptyStringItems ==
    (Responded /\ ~sx.spec.top_k.isNone /\ sx.out.k = "return") =>
        LET result == sx.out.v.l
            n == sx.spec.top_k.n
        IN  /\ \A i \in 1..Len(result) :
                  /\ result[i] # NoneItem
                  /\ result[i].s # <<>>
                  /\ \E j \in 1..Len(StringItems) : strip(StringItems[j].s) = result[i].s
            /\ Len(result) = IF n > 0 /\ n < Len(StringItems) THEN n ELSE Len(StringItems)

\* ------------------------------------- properties: prompt and parsing agree
\* the response is what the prompt asked for: a JSON array and nothing else
\* when it asked for a JSON array, no array when it asked for a bare value
FollowsPrompt(prompt, response) ==
    IF prompt.format = "JSON array of strings"
    THEN json_loads(strip(response)).ok
    ELSE ~json_loads(strip(response)).ok

\* C38, as claimed: for a single-valued spec (top_k None) the prompt asks
\* for a bare value and names NOT_FOUND for the case that nothing is found,
\* and it asks for a JSON array only for a multi-valued spec; so a response
\* that follows the prompt of a single-valued spec is not returned as a
\* candidate that is the text of a JSON array.
C38_PromptAgreesWithParsing ==
    (sx.pc = "done" /\ sx.kind = LLM /\ sx.asked # <<>>) =>
        LET prompt == sx.asked[1]
        IN  /\ sx.spec.top_k.isNone =>
                  /\ prompt.format = "bare value"
                  /\ prompt.not_found = NOT_FOUND
            /\ prompt.format = "JSON array of strings" => ~sx.spec.top_k.isNone
            /\ (/\ sx.spec.top_k.isNone
                /\ Responded
                /\ FollowsPrompt(prompt, sx.answer.v.s)
                /\ sx.out.k = "return") =>
                  \A i \in 1..Len(sx.out.v.l) : ~json_loads(sx.out.v.l[i].s).ok

====
